---- MODULE Spec2Model ----
(***************************************************************************)
(* The resource index of the Orthanc server (DatabaseWrapper.cpp): schema  *)
(* lifecycle at open time, the resource tree with its attachments and      *)
(* metadata, and the cascading DeleteResource with the listener signals.   *)
(*                                                                         *)
(* The tables are sets of rows, as in the SQL backend.  The SQL scripts    *)
(* (schema creation, migrations, cascade rules and triggers) are not part  *)
(* of the C++ sources; their effect is taken from the specification.       *)
(***************************************************************************)
EXTENDS Integers, Sequences, FiniteSets, Bags, TLC

(***************************************************************************)
(* Bounds of the model                                                     *)
(***************************************************************************)
\* how many rows the store gets: resources ever created (internal ids are
\* never reused) plus the attachments and metadata it holds
MaxRows == 4

\* how many entries the recycling set is ever given (its sequence counter)
MaxRecyclingSeq == 3

\* how many records each audit log gets
MaxLog == 3

\* rows of the two tag tables together
MaxTags == 3

\* resources created where any resource is attached to any other
MaxAttached == 3

(***************************************************************************)
(* Program constants                                                       *)
(***************************************************************************)
ResourceType_Patient == 1
ResourceType_Study == 2
ResourceType_Series == 3
ResourceType_Instance == 4
ResourceTypes == ResourceType_Patient .. ResourceType_Instance

\* the schema version this build works with
ORTHANC_DATABASE_VERSION == 5

\* the NULL of the parentId column; AUTOINCREMENT ids start at 1
NoParent == 0

\* the public ids a caller hands to CreateResource, in the order it uses them
PublicIdList == <<"pub-a", "pub-b", "pub-c", "pub-d", "pub-e", "pub-f">>

\* attachment content kinds and the records a caller attaches
FileContentTypes == {1, 2}
Uuids == {"uuid-1"}

\* SQL NULL in a text column (MD5 columns of rows older than schema version 4)
SqlNull == "<NULL>"

MetadataTypes == {1}
MetadataValues == {"m1"}

(***************************************************************************)
(* Version strings are sequences of characters, so that parsing them is    *)
(* something the model computes.                                           *)
(***************************************************************************)
Digits == {"0", "1", "2", "3", "4", "5", "6", "7", "8", "9"}

DigitValue(c) ==
  CASE c = "0" -> 0 [] c = "1" -> 1 [] c = "2" -> 2 [] c = "3" -> 3
    [] c = "4" -> 4 [] c = "5" -> 5 [] c = "6" -> 6 [] c = "7" -> 7
    [] c = "8" -> 8 [] c = "9" -> 9

Unknown == <<"U", "n", "k", "n", "o", "w", "n">>

\* the raw values of the DatabaseSchemaVersion property a store may hold
StoredVersions ==
  { <<"3">>, <<"4">>, <<"5">>, <<"6">>, <<"9", "9">>, <<"0", "5">>, <<"+", "4">>,
    <<"-", "1">>, <<"a", "b", "c">>, <<"5", "x">>, <<" ", "5">>, <<>> }

\* an unsigned int as lexical_cast yields it; wrapped: the value is 2^32 - value
UInt(n) == [thrown |-> FALSE, wrapped |-> FALSE, value |-> n]
BadLexicalCast == [thrown |-> TRUE, wrapped |-> FALSE, value |-> 0]

RECURSIVE DigitsToNat(_)
DigitsToNat(s) ==
  IF s = <<>> THEN 0
  ELSE DigitsToNat(SubSeq(s, 1, Len(s) - 1)) * 10 + DigitValue(s[Len(s)])

\* boost::lexical_cast<unsigned int>: an optional sign, then one or more
\* digits and nothing else; a '-' negates modulo 2^32 (the wrapped value
\* 2^32 - m is kept symbolic).  Strings of at most nine digits, so that no
\* value exceeds the unsigned range.
lexical_cast(s) ==
  LET signed == Len(s) > 0 /\ s[1] \in {"+", "-"}
      body   == IF signed THEN Tail(s) ELSE s
      m      == DigitsToNat(body)
  IN  IF body = <<>> \/ (\E i \in 1..Len(body) : body[i] \notin Digits)
        THEN BadLexicalCast
      ELSE IF signed /\ s[1] = "-" /\ m # 0
        THEN [thrown |-> FALSE, wrapped |-> TRUE, value |-> m]
      ELSE UInt(m)

\* v == n for an unsigned int v and a small literal n
IsVersion(v, n) == ~v.thrown /\ ~v.wrapped /\ v.value = n

\* the decimal string a script writes for a version below 10
VersionString(v) ==
  <<CHOOSE c \in Digits : DigitValue(c) = v>>

(***************************************************************************)
(* State                                                                   *)
(***************************************************************************)
VARIABLES
  \* ---- the persistent store
  schemaExists,       \* the GlobalProperties table (and the schema) exists
  GlobalProperties,   \* rows <<property, value>>
  Resources,          \* rows [internalId, resourceType, publicId, parentId]
  lastInsertRowId,    \* AUTOINCREMENT counter of Resources
  AttachedFiles,      \* rows [id, fileType, uuid, compressedSize, ...]
  Metadata,           \* rows [id, type, value]
  \* ---- the open handle (a DatabaseWrapper object)
  handle,             \* "none" | "open" | "failed"
  registered,         \* names of the scalar functions registered with db_
  listener_,          \* NoListener or the listener installed by SetListener
  signalRemainingAncestor_,   \* the accumulator object
  \* ---- what the caller and the listener observe
  lastCall,           \* [op, id, error] of the call that ended last
  applied,            \* scripts run and committed by the last Open, in order
  cascadeSignals,     \* bag of listener calls made while the statement ran
  afterSignals,       \* sequence of listener calls made after the statement
  \* ---- the satellite tables
  PatientRecyclingOrder,   \* rows [seq, patientId]
  recyclingSeq,       \* AUTOINCREMENT counter of PatientRecyclingOrder
  Changes,            \* rows [seq, changeType, internalId, resourceType, date]
  changesSeq,         \* AUTOINCREMENT counter of Changes
  ExportedResources,  \* rows [seq, resourceType, publicId, ..., date]
  exportedSeq,        \* AUTOINCREMENT counter of ExportedResources
  \* ---- what a query returned
  answer,             \* the out-parameters and result of the last query
  pager,              \* a caller reading a log page by page
  \* ---- the tag tables
  MainDicomTags,      \* rows [id, tagGroup, tagElement, value]
  DicomIdentifiers,   \* rows [id, tagGroup, tagElement, value]
  \* ---- the history of the accumulator
  reported,           \* the arguments of the Compute calls since the last Reset
  \* ---- the scripts built into the program
  EmbeddedResources   \* for each upgrade script, the version it leaves stored

store == <<schemaExists, GlobalProperties, Resources, lastInsertRowId,
           AttachedFiles, Metadata>>
tables == <<Resources, lastInsertRowId, AttachedFiles, Metadata>>
object == <<handle, registered, listener_, signalRemainingAncestor_>>
observed == <<lastCall, applied, cascadeSignals, afterSignals>>
recycling == <<PatientRecyclingOrder, recyclingSeq>>
logs == <<Changes, changesSeq, ExportedResources, exportedSeq>>
queries == <<answer, pager>>
tags == <<MainDicomTags, DicomIdentifiers>>
satellite == <<recycling, logs, queries, tags, reported, EmbeddedResources>>
vars == <<store, object, observed, satellite>>

NoListener == "NULL"
TheListener == "listener"

GlobalProperty_DatabaseSchemaVersion == "DatabaseSchemaVersion"

NoError == "Success"
ErrorCode_IncompatibleDatabaseVersion == "IncompatibleDatabaseVersion"
ErrorCode_InternalError == "InternalError"
ErrorCode_UnknownResource == "UnknownResource"
ErrorCode_ParameterOutOfRange == "ParameterOutOfRange"
SQLiteError == "SQLiteError"

Call(op, id, error) == [op |-> op, id |-> id, error |-> error]

\* no query has been made since the last change
NoAnswer == [op |-> "none"]
NoPager == [log |-> "none"]

(***************************************************************************)
(* Schema lifecycle                                                        *)
(***************************************************************************)
UPGRADE_DATABASE_3_TO_4 == "UPGRADE_DATABASE_3_TO_4"
UPGRADE_DATABASE_4_TO_5 == "UPGRADE_DATABASE_4_TO_5"

PREPARE_DATABASE == "PREPARE_DATABASE"

\* which script, if any, the backend fails to execute in an Open
ScriptFailures ==
  {"none", PREPARE_DATABASE, UPGRADE_DATABASE_3_TO_4, UPGRADE_DATABASE_4_TO_5}

\* INSERT OR REPLACE INTO GlobalProperties
SetGlobalProperty(props, property, value) ==
  {r \in props : r[1] # property} \cup {<<property, value>>}

\* SELECT value FROM GlobalProperties WHERE property=?
LookupGlobalProperty(props, property) ==
  IF \E r \in props : r[1] = property
    THEN [found |-> TRUE, target |-> (CHOOSE r \in props : r[1] = property)[2]]
    ELSE [found |-> FALSE, target |-> <<>>]

\* the upgrade scripts as the specification describes them: each leaves the
\* version it upgrades to
TheScripts ==
  [script \in {UPGRADE_DATABASE_3_TO_4, UPGRADE_DATABASE_4_TO_5} |->
     IF script = UPGRADE_DATABASE_3_TO_4 THEN 4 ELSE ORTHANC_DATABASE_VERSION]

\* the version an upgrade script leaves in DatabaseSchemaVersion
ScriptTargetVersion(script) == EmbeddedResources[script]

\* the schema-creation script, run on a store without the GlobalProperties table
PrepareDatabase(props) ==
  SetGlobalProperty(props, GlobalProperty_DatabaseSchemaVersion,
                    VersionString(ORTHANC_DATABASE_VERSION))

\* UpgradeDatabase(db, script): the script in one transaction.  m is the
\* migration so far: [v, props, applied, failed].
UpgradeDatabase(m, script, failing, next) ==
  IF failing = script
    THEN [m EXCEPT !.failed = TRUE]
    ELSE [v       |-> UInt(next),
          props   |-> SetGlobalProperty(m.props, GlobalProperty_DatabaseSchemaVersion,
                                        VersionString(ScriptTargetVersion(script))),
          applied |-> Append(m.applied, script),
          failed  |-> FALSE]

\* as UpgradeFrom3, were the test "v <= 4": a store already at 4 gets the
\* first script again
UpgradeFrom3_UpTo4(m, failing) ==
  IF ~m.v.thrown /\ ~m.v.wrapped /\ m.v.value <= 4
    THEN UpgradeDatabase(m, UPGRADE_DATABASE_3_TO_4, failing, 4)
    ELSE m

\* if (v == 3) { 3 to 4; v = 4; }
UpgradeFrom3(m, failing) ==
  IF IsVersion(m.v, 3)
    THEN UpgradeDatabase(m, UPGRADE_DATABASE_3_TO_4, failing, 4)
    ELSE m

\* as UpgradeFrom4, were the test "v != 5": any store not at the current
\* version gets the last script
UpgradeFrom4_NotCurrent(m, failing) ==
  IF ~m.failed /\ ~IsVersion(m.v, 5)
    THEN UpgradeDatabase(m, UPGRADE_DATABASE_4_TO_5, failing, 5)
    ELSE m

\* as UpgradeFrom4, were the second test an "else if": a store just brought
\* to 4 is left there
UpgradeFrom4_ElseIf(m, failing) ==
  IF ~m.failed /\ m.applied = <<>> /\ IsVersion(m.v, 4)
    THEN UpgradeDatabase(m, UPGRADE_DATABASE_4_TO_5, failing, 5)
    ELSE m

\* if (v == 4) { 4 to 5; v = 5; }
UpgradeFrom4(m, failing) ==
  IF ~m.failed /\ IsVersion(m.v, 4)
    THEN UpgradeDatabase(m, UPGRADE_DATABASE_4_TO_5, failing, 5)
    ELSE m

\* the body of the try block of Open, from the parsed version v
Migrate(v, props, failing) ==
  UpgradeFrom4(UpgradeFrom3([v |-> v, props |-> props, applied |-> <<>>,
                             failed |-> FALSE], failing), failing)

\* the error Open ends with
OpenError(v, m) ==
  IF v.thrown THEN ErrorCode_IncompatibleDatabaseVersion   \* catch: ok = false
  ELSE IF m.failed THEN SQLiteError                        \* thrown by Execute
  ELSE IF ~IsVersion(m.v, ORTHANC_DATABASE_VERSION)
    THEN ErrorCode_InternalError                           \* the sanity check
  ELSE IF ~(IsVersion(v, 3) \/ IsVersion(v, 4) \/ IsVersion(v, 5))
    THEN ErrorCode_IncompatibleDatabaseVersion             \* !ok
  ELSE NoError

\* SignalRemainingAncestor(): nothing recorded; remainingType_ is not
\* initialised and is not read before Compute has set it
EmptyAccumulator ==
  [hasRemainingAncestor_ |-> FALSE, remainingPublicId_ |-> "", remainingType_ |-> 0]

\* db_.Execute(query) of the schema-creation script fails: the script is run
\* outside any transaction, so the statements before the failing one stay.
\* Either the first statement fails and nothing is created, or a later one
\* fails and the tables are there without the version row.
OpenFailsPreparing ==
  /\ schemaExists' \in BOOLEAN
  /\ GlobalProperties' = GlobalProperties
  /\ applied' = <<>>
  /\ lastCall' = Call("Open", 0, SQLiteError)
  /\ handle' = "failed"
  /\ UNCHANGED <<signalRemainingAncestor_, registered>>

\* the constructor: db_.Open(path); Open()
Open ==
  /\ handle = "none"
  /\ \E failing \in ScriptFailures :
     IF ~schemaExists /\ failing = PREPARE_DATABASE THEN OpenFailsPreparing ELSE
       LET props1  == IF schemaExists THEN GlobalProperties
                      ELSE PrepareDatabase(GlobalProperties)
           found   == LookupGlobalProperty(props1, GlobalProperty_DatabaseSchemaVersion)
           version == IF found.found THEN found.target ELSE Unknown
           v       == lexical_cast(version)
           m       == IF v.thrown
                        THEN [v |-> v, props |-> props1, applied |-> <<>>,
                              failed |-> FALSE]
                        ELSE Migrate(v, props1, failing)
           error   == OpenError(v, m)
       IN  /\ schemaExists' = TRUE
           /\ GlobalProperties' = m.props
           /\ applied' = m.applied
           /\ lastCall' = Call("Open", 0, error)
           /\ IF error = NoError
                THEN /\ handle' = "open"
                     /\ signalRemainingAncestor_' = EmptyAccumulator
                     /\ registered' = {"SignalRemainingAncestor"}
                ELSE /\ handle' = "failed"
                     /\ UNCHANGED <<signalRemainingAncestor_, registered>>
  /\ cascadeSignals' = EmptyBag
  /\ afterSignals' = <<>>
  /\ UNCHANGED <<tables, listener_>>
  /\ UNCHANGED satellite

\* SetListener(listener)
SetListener ==
  /\ handle = "open"
  /\ listener_' = TheListener
  /\ registered' = registered \cup {"SignalFileDeleted", "SignalResourceDeleted"}
  /\ lastCall' = Call("SetListener", 0, NoError)
  /\ cascadeSignals' = EmptyBag
  /\ afterSignals' = <<>>
  /\ applied' = <<>>
  /\ UNCHANGED <<store, handle, signalRemainingAncestor_>>
  /\ UNCHANGED satellite

\* the index is closed, or the constructor that failed is left: the object
\* and what it registered are gone, the store stays as it is
CloseStore ==
  /\ handle \in {"open", "failed"}
  /\ handle' = "none"
  /\ registered' = {}
  /\ listener_' = NoListener
  /\ signalRemainingAncestor_' = EmptyAccumulator
  /\ lastCall' = Call("Close", 0, NoError)
  /\ cascadeSignals' = EmptyBag
  /\ afterSignals' = <<>>
  /\ applied' = <<>>
  /\ UNCHANGED store
  /\ UNCHANGED satellite

(***************************************************************************)
(* Resources, attachments, metadata                                        *)
(***************************************************************************)
\* A uint32_t is held as its 32-bit pattern read as a signed integer: the
\* values 2^31 .. 2^32 - 1 are the negative numbers -2^31 .. -1.
INT32_MAX == 2147483647
INT32_MIN == -2147483647 - 1
UINT32_MAX == -1

\* A row id is an int64_t. The tables hold a row id below 2^32 as its low 32
\* bits, read in the same way: 2^31 is held as -2^31, its high 32 bits are 0.
\* The row id the backend assigns after the row id last:
RowIdAfter(last) == IF last = INT32_MAX THEN INT32_MIN ELSE last + 1

\* the counter of an aged store, in which 2^31 - 2 resources have been created
AgedRowId == INT32_MAX - 1

\* how many row ids this run has had assigned, in a fresh or an aged store
RowIdsIssued ==
  IF lastInsertRowId < 0 THEN (lastInsertRowId - INT32_MIN) + 2
  ELSE IF lastInsertRowId >= AgedRowId THEN lastInsertRowId - AgedRowId
  ELSE lastInsertRowId

\* the ids a caller passes: those ever assigned and one never assigned
InternalIds == 1 .. (lastInsertRowId + 1)

\* rows the store holds, counting every resource ever created
RowsCreated == RowIdsIssued + Cardinality(AttachedFiles) + Cardinality(Metadata)

ExistingIds(rows) == {r.internalId : r \in rows}

\* the records a caller attaches: FileInfo(uuid, contentType, uncompressedSize,
\* uncompressedMD5, compressionType, compressedSize, compressedMD5)
FileInfo(uuid, contentType, uncompressedSize, uncompressedMD5, compressionType, compressedSize, compressedMD5) ==
  [uuid |-> uuid, contentType |-> contentType,
   uncompressedSize |-> uncompressedSize, uncompressedMD5 |-> uncompressedMD5,
   compressionType |-> compressionType, compressedSize |-> compressedSize,
   compressedMD5 |-> compressedMD5]

FileInfos ==
  { FileInfo(u, t, 10, "md5-of-plain", 2, 7, "md5-of-packed") :
      u \in Uuids, t \in FileContentTypes }

\* the backend refuses a second resource with a public id already stored
PublicIdIsFree(rows, publicId) == \A r \in rows : r.publicId # publicId

\* the backend refuses a reference to a resource row that does not exist
ForeignKeyHolds(rows, id) == id \in ExistingIds(rows)

\* as CreateResourceOp, were a new resource entered into the recycling order
CreateResourceOp_Recycles(publicId, type) ==
  /\ handle = "open"
  /\ IF PublicIdIsFree(Resources, publicId)
       THEN /\ Resources' = Resources \cup
                  {[internalId |-> RowIdAfter(lastInsertRowId), resourceType |-> type,
                    publicId |-> publicId, parentId |-> NoParent]}
            /\ lastInsertRowId' = RowIdAfter(lastInsertRowId)
            /\ lastCall' = Call("CreateResource", RowIdAfter(lastInsertRowId), NoError)
            /\ PatientRecyclingOrder' = PatientRecyclingOrder \cup
                  {[seq |-> recyclingSeq + 1, patientId |-> RowIdAfter(lastInsertRowId)]}
            /\ recyclingSeq' = recyclingSeq + 1
       ELSE /\ UNCHANGED <<Resources, lastInsertRowId, recycling>>
            /\ lastCall' = Call("CreateResource", 0, SQLiteError)
  /\ applied' = <<>>
  /\ cascadeSignals' = EmptyBag
  /\ afterSignals' = <<>>
  /\ UNCHANGED <<schemaExists, GlobalProperties, AttachedFiles, Metadata, object>>
  /\ UNCHANGED <<logs, queries, tags, reported, EmbeddedResources>>

\* as CreateResourceOp, were the error of the refused INSERT swallowed
CreateResourceOp_Swallows(publicId, type) ==
  /\ handle = "open"
  /\ IF PublicIdIsFree(Resources, publicId)
       THEN /\ Resources' = Resources \cup
                  {[internalId |-> RowIdAfter(lastInsertRowId), resourceType |-> type,
                    publicId |-> publicId, parentId |-> NoParent]}
            /\ lastInsertRowId' = RowIdAfter(lastInsertRowId)
            /\ lastCall' = Call("CreateResource", RowIdAfter(lastInsertRowId), NoError)
       ELSE /\ UNCHANGED <<Resources, lastInsertRowId>>
            /\ lastCall' = Call("CreateResource", lastInsertRowId, NoError)
  /\ applied' = <<>>
  /\ cascadeSignals' = EmptyBag
  /\ afterSignals' = <<>>
  /\ UNCHANGED <<schemaExists, GlobalProperties, AttachedFiles, Metadata, object>>
  /\ UNCHANGED satellite

\* CreateResource(publicId, type)
CreateResourceOp(publicId, type) ==
  /\ handle = "open"
  /\ IF PublicIdIsFree(Resources, publicId)
       THEN /\ Resources' = Resources \cup
                  {[internalId |-> RowIdAfter(lastInsertRowId), resourceType |-> type,
                    publicId |-> publicId, parentId |-> NoParent]}
            /\ lastInsertRowId' = RowIdAfter(lastInsertRowId)
            /\ lastCall' = Call("CreateResource", RowIdAfter(lastInsertRowId), NoError)
       ELSE /\ UNCHANGED <<Resources, lastInsertRowId>>
            /\ lastCall' = Call("CreateResource", 0, SQLiteError)
  /\ applied' = <<>>
  /\ cascadeSignals' = EmptyBag
  /\ afterSignals' = <<>>
  /\ UNCHANGED <<schemaExists, GlobalProperties, AttachedFiles, Metadata, object>>
  /\ UNCHANGED satellite

\* UPDATE Resources SET parentId = ? WHERE internalId = ?
\* as SetParent, with the two parameters bound the other way round
SetParent_Exchanged(rows, parent, child) ==
  {IF r.internalId = parent THEN [r EXCEPT !.parentId = child] ELSE r : r \in rows}

SetParent(rows, parent, child) ==
  {IF r.internalId = child THEN [r EXCEPT !.parentId = parent] ELSE r : r \in rows}

\* AttachChild(parent, child)
AttachChildOp(parent, child) ==
  /\ handle = "open"
  /\ IF child \in ExistingIds(Resources) /\ ~ForeignKeyHolds(Resources, parent)
       THEN /\ UNCHANGED Resources
            /\ lastCall' = Call("AttachChild", 0, SQLiteError)
       ELSE /\ Resources' = SetParent(Resources, parent, child)
            /\ lastCall' = Call("AttachChild", 0, NoError)
  /\ applied' = <<>>
  /\ cascadeSignals' = EmptyBag
  /\ afterSignals' = <<>>
  /\ UNCHANGED <<schemaExists, GlobalProperties, lastInsertRowId, AttachedFiles,
                 Metadata, object>>
  /\ UNCHANGED satellite

\* the row AddAttachment binds: INSERT INTO AttachedFiles VALUES(?, ..., ?)
AttachedFileRow(id, attachment) ==
  [id |-> id, fileType |-> attachment.contentType, uuid |-> attachment.uuid,
   compressedSize |-> attachment.compressedSize,
   uncompressedSize |-> attachment.uncompressedSize,
   compressionType |-> attachment.compressionType,
   uncompressedMD5 |-> attachment.uncompressedMD5,
   compressedMD5 |-> attachment.compressedMD5]

\* AddAttachment(id, attachment)
AddAttachmentOp(id, attachment) ==
  /\ handle = "open"
  /\ IF /\ ForeignKeyHolds(Resources, id)
        /\ \A a \in AttachedFiles :
             ~(a.id = id /\ a.fileType = attachment.contentType)
       THEN /\ AttachedFiles' = AttachedFiles \cup {AttachedFileRow(id, attachment)}
            /\ lastCall' = Call("AddAttachment", 0, NoError)
       ELSE /\ UNCHANGED AttachedFiles
            /\ lastCall' = Call("AddAttachment", 0, SQLiteError)
  /\ applied' = <<>>
  /\ cascadeSignals' = EmptyBag
  /\ afterSignals' = <<>>
  /\ UNCHANGED <<schemaExists, GlobalProperties, Resources, lastInsertRowId,
                 Metadata, object>>
  /\ UNCHANGED satellite

\* SetMetadata(id, type, value): INSERT OR REPLACE INTO Metadata
SetMetadataOp(id, type, value) ==
  /\ handle = "open"
  /\ IF ForeignKeyHolds(Resources, id)
       THEN /\ Metadata' = {m \in Metadata : ~(m.id = id /\ m.type = type)}
                             \cup {[id |-> id, type |-> type, value |-> value]}
            /\ lastCall' = Call("SetMetadata", 0, NoError)
       ELSE /\ UNCHANGED Metadata
            /\ lastCall' = Call("SetMetadata", 0, SQLiteError)
  /\ applied' = <<>>
  /\ cascadeSignals' = EmptyBag
  /\ afterSignals' = <<>>
  /\ UNCHANGED <<schemaExists, GlobalProperties, Resources, lastInsertRowId,
                 AttachedFiles, object>>
  /\ UNCHANGED satellite

(***************************************************************************)
(* Cascading delete and the listener signals                               *)
(***************************************************************************)
\* the scalar functions the cascade rules of the schema call
TriggerFunctions ==
  {"SignalFileDeleted", "SignalResourceDeleted", "SignalRemainingAncestor"}

\* a statement whose cascade rules call a function that is not registered
\* cannot be prepared
StatementCompiles(functions) == TriggerFunctions \subseteq functions

\* as DeletedByStatement, were the statement written WHERE parentId=?
DeletedByStatement_ByParent(rows, id) == {r \in rows : r.parentId = id}

\* the rows matched by DELETE FROM Resources WHERE internalId=?
DeletedByStatement(rows, id) == {r \in rows : r.internalId = id}

\* the rows a delete of the rows in seed removes: seed and, by the cascade
\* rule on parentId, every row whose parent is removed
RECURSIVE CascadeDeleted(_, _)
CascadeDeleted(rows, seed) ==
  LET next == seed \cup {r \in rows : r.parentId \in ExistingIds(seed)}
  IN  IF next = seed THEN seed ELSE CascadeDeleted(rows, next)

\* the rows of rows that have a row of below among their descendants
RECURSIVE AncestorsOf(_, _)
AncestorsOf(rows, below) ==
  LET parents == {r \in rows : \E b \in below : b.parentId = r.internalId}
      next    == below \cup parents
  IN  IF next = below THEN below ELSE AncestorsOf(rows, next)

\* the ancestors that survive the removal: one report each, as the arguments
\* (publicId, resourceType) of SignalRemainingAncestor
RemainingAncestorReports(rows, removed) ==
  { <<r.publicId, r.resourceType>> : r \in AncestorsOf(rows, removed) \ removed }

\* the arguments the cascade rules hand to SignalFileDeleted for a removed row
FileDeletedArguments(a) ==
  <<a.uuid, a.fileType, a.uncompressedSize, a.compressionType, a.compressedSize,
    a.uncompressedMD5, a.compressedMD5>>

\* the arguments the cascade rules hand to SignalResourceDeleted
ResourceDeletedArguments(r) == <<r.publicId, r.resourceType>>

Signal(name, args) == [signal |-> name, args |-> args]

\* as SignalFileDeleted_Compute, with the two sizes read from each other's argument
SignalFileDeleted_Compute_SwappedSizes(context) ==
  LET uncompressedMD5 == IF context[6] # SqlNull THEN context[6] ELSE ""
      compressedMD5   == IF context[7] # SqlNull THEN context[7] ELSE ""
  IN  Signal("SignalFileDeleted",
             <<FileInfo(context[1], context[2], context[5], uncompressedMD5,
                        context[4], context[3], compressedMD5)>>)

\* Internals::SignalFileDeleted::Compute; context[k + 1] is argument k
SignalFileDeleted_Compute(context) ==
  LET uncompressedMD5 == IF context[6] # SqlNull THEN context[6] ELSE ""
      compressedMD5   == IF context[7] # SqlNull THEN context[7] ELSE ""
  IN  Signal("SignalFileDeleted",
             <<FileInfo(context[1], context[2], context[3], uncompressedMD5,
                        context[4], context[5], compressedMD5)>>)

\* as SignalResourceDeleted_Compute, reporting another change type
SignalResourceDeleted_Compute_WrongChange(context) ==
  Signal("SignalChange", <<"ModifiedStudy", context[2], context[1]>>)

\* Internals::SignalResourceDeleted::Compute
SignalResourceDeleted_Compute(context) ==
  Signal("SignalChange", <<"Deleted", context[2], context[1]>>)

\* as Reset, leaving the flag as the earlier call left it
Reset_KeepsFlag(acc) == acc

\* Internals::SignalRemainingAncestor::Reset
Reset(acc) == [acc EXCEPT !.hasRemainingAncestor_ = FALSE]

\* as Compute, with the comparison turned round: the deepest kind is kept
Compute_KeepsDeepest(acc, context) ==
  IF ~acc.hasRemainingAncestor_ \/ acc.remainingType_ <= context[2]
    THEN [hasRemainingAncestor_ |-> TRUE, remainingPublicId_ |-> context[1],
          remainingType_ |-> context[2]]
    ELSE acc

\* as Compute, without the comparison: the first report is kept
Compute_KeepsFirst(acc, context) ==
  IF ~acc.hasRemainingAncestor_
    THEN [hasRemainingAncestor_ |-> TRUE, remainingPublicId_ |-> context[1],
          remainingType_ |-> context[2]]
    ELSE acc

\* as Compute, with > for >=: of two reports of one kind the first is kept
Compute_KeepsFirstOfAKind(acc, context) ==
  IF ~acc.hasRemainingAncestor_ \/ acc.remainingType_ > context[2]
    THEN [hasRemainingAncestor_ |-> TRUE, remainingPublicId_ |-> context[1],
          remainingType_ |-> context[2]]
    ELSE acc

\* Internals::SignalRemainingAncestor::Compute
Compute(acc, context) ==
  IF ~acc.hasRemainingAncestor_ \/ acc.remainingType_ >= context[2]
    THEN [hasRemainingAncestor_ |-> TRUE, remainingPublicId_ |-> context[1],
          remainingType_ |-> context[2]]
    ELSE acc

\* Compute called once per report, in the order the backend produces them
RECURSIVE ComputeAll(_, _)
ComputeAll(acc, reports) ==
  IF reports = <<>> THEN acc
  ELSE ComputeAll(Compute(acc, Head(reports)), Tail(reports))

\* every order in which the backend may produce a set of reports
RECURSIVE Orderings(_)
Orderings(S) ==
  IF S = {} THEN {<<>>}
  ELSE UNION { {<<x>> \o o : o \in Orderings(S \ {x})} : x \in S }

\* SignalFileDeleted runs once for each removed attachment row
FileDeletedCalls(removedFiles) ==
  [e \in {SignalFileDeleted_Compute(FileDeletedArguments(a)) : a \in removedFiles} |->
     Cardinality({a \in removedFiles :
                    SignalFileDeleted_Compute(FileDeletedArguments(a)) = e})]

\* SignalResourceDeleted runs once for each removed resource row
ResourceDeletedCalls(removed) ==
  [e \in {SignalResourceDeleted_Compute(ResourceDeletedArguments(r)) : r \in removed} |->
     Cardinality({r \in removed :
                    SignalResourceDeleted_Compute(ResourceDeletedArguments(r)) = e})]

\* as CascadeCalls, were SignalFileDeleted not called while the statement runs
CascadeCalls_WithoutFiles(removed, removedFiles) ==
  ResourceDeletedCalls(removed)

\* the listener calls made by the callbacks while the statement runs
CascadeCalls(removed, removedFiles) ==
  FileDeletedCalls(removedFiles) (+) ResourceDeletedCalls(removed)

\* as RemainingAncestorCall, without the test of HasRemainingAncestor()
RemainingAncestorCall_IgnoresFlag(acc, listener) ==
  IF listener # NoListener
    THEN <<Signal("SignalRemainingAncestor",
                  <<acc.remainingType_, acc.remainingPublicId_>>)>>
    ELSE <<>>

\* as RemainingAncestorCall, with the listener test turned round
RemainingAncestorCall_WhenNoListener(acc, listener) ==
  IF acc.hasRemainingAncestor_ /\ listener = NoListener
    THEN <<Signal("SignalRemainingAncestor",
                  <<acc.remainingType_, acc.remainingPublicId_>>)>>
    ELSE <<>>

\* the end of DeleteResource: if (HasRemainingAncestor() && listener_ != NULL)
RemainingAncestorCall(acc, listener) ==
  IF acc.hasRemainingAncestor_ /\ listener # NoListener
    THEN <<Signal("SignalRemainingAncestor",
                  <<acc.remainingType_, acc.remainingPublicId_>>)>>
    ELSE <<>>

\* as EntriesLeft, were the recycling entries not tied to their resource
EntriesLeft_All(entries, gone) == entries

\* the recycling entries that the removal of the resources gone leaves
EntriesLeft(entries, gone) == {e \in entries : e.patientId \notin gone}

\* DeleteResource(id)
DeleteResourceOp(id) ==
  /\ handle = "open"
  /\ IF ~StatementCompiles(registered)
       THEN /\ signalRemainingAncestor_' = Reset(signalRemainingAncestor_)
            /\ lastCall' = Call("DeleteResource", id, SQLiteError)
            /\ cascadeSignals' = EmptyBag
            /\ afterSignals' = <<>>
            /\ reported' = <<>>
            /\ UNCHANGED <<Resources, AttachedFiles, Metadata, tags, PatientRecyclingOrder>>
       ELSE LET removed == CascadeDeleted(Resources, DeletedByStatement(Resources, id))
                gone    == ExistingIds(removed)
                removedFiles == {a \in AttachedFiles : a.id \in gone}
            IN  \E order \in Orderings(RemainingAncestorReports(Resources, removed)) :
                  LET acc == ComputeAll(Reset(signalRemainingAncestor_), order)
                  IN  /\ Resources' = Resources \ removed
                      /\ AttachedFiles' = AttachedFiles \ removedFiles
                      /\ Metadata' = {m \in Metadata : m.id \notin gone}
                      /\ MainDicomTags' = {t \in MainDicomTags : t.id \notin gone}
                      /\ DicomIdentifiers' =
                           {t \in DicomIdentifiers : t.id \notin gone}
                      /\ PatientRecyclingOrder' =
                           EntriesLeft(PatientRecyclingOrder, gone)
                      /\ signalRemainingAncestor_' = acc
                      /\ reported' = order
                      /\ cascadeSignals' = CascadeCalls(removed, removedFiles)
                      /\ afterSignals' = RemainingAncestorCall(acc, listener_)
                      /\ lastCall' = Call("DeleteResource", id, NoError)
  /\ applied' = <<>>
  /\ UNCHANGED <<schemaExists, GlobalProperties, lastInsertRowId, handle,
                 registered, listener_>>
  /\ UNCHANGED <<recyclingSeq, logs, queries, EmbeddedResources>>

(***************************************************************************)
(* The callers                                                             *)
(***************************************************************************)
\* Public ids are opaque: which unused one a caller picks makes no difference,
\* so it picks the first unused one of its list, or one that is in use.
CallerPublicIds ==
  LET used == {r.publicId : r \in Resources}
      free == {i \in 1..Len(PublicIdList) : PublicIdList[i] \notin used}
  IN  used \cup {PublicIdList[i] : i \in {j \in free : \A k \in free : j <= k}}

\* The caller keeps the four-level hierarchy (it is the caller, not the index,
\* that enforces it): it creates a resource below the top level only when a
\* resource one level above exists, and attaches a resource once, to a parent
\* exactly one level above it.
CreateResource ==
  /\ RowsCreated < MaxRows
  /\ \E publicId \in CallerPublicIds, type \in ResourceTypes :
       /\ type = ResourceType_Patient \/ \E r \in Resources : r.resourceType + 1 = type
       /\ CreateResourceOp(publicId, type)

AttachChild ==
  \E p \in Resources, c \in Resources :
    /\ c.parentId = NoParent
    /\ c.resourceType = p.resourceType + 1
    /\ AttachChildOp(p.internalId, c.internalId)

AddAttachment ==
  /\ RowsCreated < MaxRows
  /\ \E id \in InternalIds, attachment \in FileInfos : AddAttachmentOp(id, attachment)

SetMetadata ==
  /\ RowsCreated < MaxRows
  /\ \E id \in InternalIds, type \in MetadataTypes, value \in MetadataValues :
       SetMetadataOp(id, type, value)

DeleteResource ==
  \E id \in InternalIds : DeleteResourceOp(id)

(***************************************************************************)
(* Specification                                                           *)
(***************************************************************************)
\* a store on disk, fresh or left by an earlier run with any version value,
\* and no handle on it yet
StoreOnDisk ==
  /\ schemaExists \in BOOLEAN
  /\ IF schemaExists
       THEN GlobalProperties \in
              {{}} \cup {{<<GlobalProperty_DatabaseSchemaVersion, s>>} : s \in StoredVersions}
       ELSE GlobalProperties = {}
  /\ Resources = {}
  /\ lastInsertRowId = 0
  /\ AttachedFiles = {}
  /\ Metadata = {}
  /\ handle = "none"
  /\ registered = {}
  /\ listener_ = NoListener
  /\ signalRemainingAncestor_ = EmptyAccumulator
  /\ lastCall = Call("none", 0, NoError)
  /\ applied = <<>>
  /\ cascadeSignals = EmptyBag
  /\ afterSignals = <<>>
  /\ PatientRecyclingOrder = {}
  /\ recyclingSeq = 0
  /\ Changes = {}
  /\ changesSeq = 0
  /\ ExportedResources = {}
  /\ exportedSeq = 0
  /\ answer = NoAnswer
  /\ pager = NoPager
  /\ MainDicomTags = {}
  /\ DicomIdentifiers = {}
  /\ reported = <<>>

\* the program as built, with the upgrade scripts of the repository
Init == StoreOnDisk /\ EmbeddedResources = TheScripts

Next ==
  \/ Open
  \/ SetListener
  \/ CreateResource
  \/ AttachChild
  \/ AddAttachment
  \/ SetMetadata
  \/ DeleteResource

Spec == Init /\ [][Next]_vars

(***************************************************************************)
(* Recycling queue                                                         *)
(***************************************************************************)
\* as OldestEntry, were the statement ORDER BY seq DESC
OldestEntry_Newest(entries) ==
  CHOOSE e \in entries : \A f \in entries : e.seq >= f.seq

\* ORDER BY seq ASC LIMIT 1, on a set of rows that is not empty
OldestEntry(entries) ==
  CHOOSE e \in entries : \A f \in entries : e.seq <= f.seq

\* if (!s.Step()) return false; else { internalId = s.ColumnInt(0); return true; }
SelectResult(op, avoid, entries) ==
  IF entries = {}
    THEN [op |-> op, avoid |-> avoid, found |-> FALSE, internalId |-> 0]
    ELSE [op |-> op, avoid |-> avoid, found |-> TRUE,
          internalId |-> OldestEntry(entries).patientId]

\* WHERE patientId != ?
EntriesAvoiding(entries, patientIdToAvoid) ==
  {e \in entries : e.patientId # patientIdToAvoid}

\* as HasNoEntry, were the test left out of SetProtectedPatient
HasNoEntry_Always(entries, internalId) == TRUE

\* SELECT * FROM PatientRecyclingOrder WHERE patientId = ?; return !s.Step()
HasNoEntry(entries, internalId) ==
  ~ \E e \in entries : e.patientId = internalId

\* as WithoutEntry, were protecting to leave the entry in its place
WithoutEntry_Kept(entries, internalId) == entries

\* as WithoutEntry, were the statement DELETE ... WHERE seq=?
WithoutEntry_BySeq(entries, internalId) ==
  {e \in entries : e.seq # internalId}

\* DELETE FROM PatientRecyclingOrder WHERE patientId=?
WithoutEntry(entries, internalId) ==
  {e \in entries : e.patientId # internalId}

\* the queries leave everything but their answer as it is
Query(op, id, result) ==
  /\ handle = "open"
  /\ lastCall' = Call(op, id, NoError)
  /\ answer' = result
  /\ UNCHANGED <<store, object, tags, reported, EmbeddedResources, applied, cascadeSignals, afterSignals,
                 recycling, logs, pager>>

\* SelectPatientToRecycle(internalId)
SelectPatientToRecycleOp ==
  Query("SelectPatientToRecycle", 0,
        SelectResult("SelectPatientToRecycle", 0, PatientRecyclingOrder))

\* SelectPatientToRecycle(internalId, patientIdToAvoid)
SelectPatientToRecycleAvoidOp(patientIdToAvoid) ==
  Query("SelectPatientToRecycleAvoid", patientIdToAvoid,
        SelectResult("SelectPatientToRecycleAvoid", patientIdToAvoid,
                     EntriesAvoiding(PatientRecyclingOrder, patientIdToAvoid)))

\* IsProtectedPatient(internalId)
IsProtectedPatientOp(internalId) ==
  Query("IsProtectedPatient", internalId,
        [op |-> "IsProtectedPatient",
         result |-> HasNoEntry(PatientRecyclingOrder, internalId)])

\* SetProtectedPatient(internalId, isProtected)
SetProtectedPatientOp(internalId, isProtected) ==
  /\ handle = "open"
  /\ IF isProtected
       THEN /\ PatientRecyclingOrder' = WithoutEntry(PatientRecyclingOrder, internalId)
            /\ UNCHANGED recyclingSeq
            /\ lastCall' = Call("SetProtectedPatient", internalId, NoError)
       ELSE IF HasNoEntry(PatientRecyclingOrder, internalId)
         THEN IF ForeignKeyHolds(Resources, internalId)
                THEN /\ PatientRecyclingOrder' = PatientRecyclingOrder \cup
                           {[seq |-> recyclingSeq + 1, patientId |-> internalId]}
                     /\ recyclingSeq' = recyclingSeq + 1
                     /\ lastCall' = Call("SetProtectedPatient", internalId, NoError)
                ELSE /\ UNCHANGED recycling
                     /\ lastCall' = Call("SetProtectedPatient", internalId, SQLiteError)
         ELSE /\ UNCHANGED recycling
              /\ lastCall' = Call("SetProtectedPatient", internalId, NoError)
  /\ answer' = [op |-> "SetProtectedPatient", isProtected |-> isProtected]
  /\ UNCHANGED <<store, object, tags, reported, EmbeddedResources, applied, cascadeSignals, afterSignals, logs, pager>>

\* the callers of the recycling queue
SelectPatientToRecycle == SelectPatientToRecycleOp

SelectPatientToRecycleAvoid ==
  \E patientIdToAvoid \in InternalIds : SelectPatientToRecycleAvoidOp(patientIdToAvoid)

IsProtectedPatient ==
  \E internalId \in InternalIds : IsProtectedPatientOp(internalId)

SetProtectedPatient ==
  /\ recyclingSeq < MaxRecyclingSeq
  /\ \E internalId \in InternalIds, isProtected \in BOOLEAN :
       SetProtectedPatientOp(internalId, isProtected)

\* a handle opened, with its listener, on a store that holds the resources
\* rows and whose row id counter stands at last; call is the call made last
OpenedOn(stored, counter, made) ==
  /\ schemaExists = TRUE
  /\ GlobalProperties = PrepareDatabase({})
  /\ Resources = stored
  /\ lastInsertRowId = counter
  /\ AttachedFiles = {}
  /\ Metadata = {}
  /\ handle = "open"
  /\ registered = TriggerFunctions
  /\ listener_ = TheListener
  /\ signalRemainingAncestor_ = EmptyAccumulator
  /\ lastCall = made
  /\ applied = <<>>
  /\ cascadeSignals = EmptyBag
  /\ afterSignals = <<>>
  /\ PatientRecyclingOrder = {}
  /\ recyclingSeq = 0
  /\ Changes = {}
  /\ changesSeq = 0
  /\ ExportedResources = {}
  /\ exportedSeq = 0
  /\ answer = NoAnswer
  /\ pager = NoPager
  /\ MainDicomTags = {}
  /\ DicomIdentifiers = {}
  /\ reported = <<>>
  /\ EmbeddedResources = TheScripts

\* a handle opened, with its listener, on a store that holds no resource and
\* whose row id counter stands at last
OpenedWithCounter(last) == OpenedOn({}, last, Call("SetListener", 0, NoError))

\* a handle opened on a fresh store, with its listener
InitOpened == OpenedWithCounter(0)

NextRecycling ==
  \/ CreateResource
  \/ SetProtectedPatient
  \/ SelectPatientToRecycle
  \/ SelectPatientToRecycleAvoid
  \/ IsProtectedPatient

SpecRecycling == InitOpened /\ [][NextRecycling]_vars

(***************************************************************************)
(* Audit logs and their range queries                                      *)
(***************************************************************************)
\* the maxResults a caller passes: small ones, 2^31 - 1, 2^31 and 2^32 - 1
MaxResultsValues == (0 .. MaxLog) \cup {INT32_MAX, INT32_MIN, UINT32_MAX}

\* size < maxResults, size a small size_t and maxResults a uint32_t
SizeBelow(size, maxResults) == maxResults < 0 \/ size < maxResults

\* maxResults + 1 in uint32_t arithmetic, bound with BindInt(int)
PlusOne(maxResults) ==
  IF maxResults = INT32_MAX THEN INT32_MIN ELSE maxResults + 1

\* the rows in ascending order of seq
RECURSIVE OrderBySeq(_)
OrderBySeq(rows) ==
  IF rows = {} THEN <<>>
  ELSE LET first == CHOOSE r \in rows : \A q \in rows : r.seq <= q.seq
       IN  <<first>> \o OrderBySeq(rows \ {first})

\* LIMIT n: a negative n is no limit
Limit(rows, n) ==
  IF n < 0 \/ n >= Len(rows) THEN rows ELSE SubSeq(rows, 1, n)

\* SELECT * FROM <log> WHERE seq>? ORDER BY seq LIMIT ?
SelectRange(table, since, limit) ==
  Limit(OrderBySeq({r \in table : r.seq > since}), limit)

\* how many rows the loop "while (target.size() < maxResults && s.Step())" reads
RowsRead(rows, maxResults) ==
  IF SizeBelow(Len(rows), maxResults) THEN Len(rows) ELSE maxResults

\* as Done, without the look at the row after the last one
Done_CountOnly(size, maxResults, rows) == size # maxResults

\* done = !(target.size() == maxResults && s.Step())
Done(size, maxResults, rows) == ~(size = maxResults /\ Len(rows) > size)

\* GetPublicId(resourceId) finds a row
KnownResource(rows, resourceId) == \E r \in rows : r.internalId = resourceId

\* GetPublicId(resourceId)
GetPublicId(rows, resourceId) ==
  (CHOOSE r \in rows : r.internalId = resourceId).publicId

\* ServerIndexChange(seq, changeType, resourceType, publicId, date)
ServerIndexChange(row) ==
  [seq |-> row.seq, changeType |-> row.changeType, resourceType |-> row.resourceType,
   publicId |-> GetPublicId(Resources, row.internalId), date |-> row.date]

\* GetChangesInternal(target, done, s, maxResults)
GetChangesInternal(rows, maxResults) ==
  LET n == RowsRead(rows, maxResults)
  IN  IF \E i \in 1..n : ~KnownResource(Resources, rows[i].internalId)
        THEN [target |-> <<>>, done |-> FALSE, error |-> ErrorCode_UnknownResource]
        ELSE [target |-> [i \in 1..n |-> ServerIndexChange(rows[i])],
              done |-> Done(n, maxResults, rows), error |-> NoError]

\* GetExportedResourcesInternal(target, done, s, maxResults)
GetExportedResourcesInternal(rows, maxResults) ==
  LET n == RowsRead(rows, maxResults)
  IN  [target |-> SubSeq(rows, 1, n), done |-> Done(n, maxResults, rows),
       error |-> NoError]

\* GetChanges / GetExportedResources (target, done, since, maxResults)
GetRange(log, since, maxResults) ==
  IF log = "Changes"
    THEN GetChangesInternal(SelectRange(Changes, since, PlusOne(maxResults)), maxResults)
    ELSE GetExportedResourcesInternal(
           SelectRange(ExportedResources, since, PlusOne(maxResults)), maxResults)

RangeOp(log) == IF log = "Changes" THEN "GetChanges" ELSE "GetExportedResources"

\* one call of a range query, whoever makes it
RangeCall(log, since, maxResults) ==
  LET result == GetRange(log, since, maxResults)
  IN  /\ handle = "open"
      /\ lastCall' = Call(RangeOp(log), 0, result.error)
      /\ answer' = [op |-> RangeOp(log), log |-> log, since |-> since,
                    maxResults |-> maxResults, target |-> result.target,
                    done |-> result.done]
      /\ UNCHANGED <<store, object, tags, reported, EmbeddedResources, applied, cascadeSignals, afterSignals,
                     recycling, logs>>

\* as LogChangeOp, were seq the largest seq present plus one and not a
\* counter that never goes back
LogChangeOp_ReusesSeq(internalId, change) ==
  /\ handle = "open"
  /\ Changes' = Changes \cup
       {[seq |-> Cardinality(Changes) + 1, changeType |-> change.changeType,
         internalId |-> internalId, resourceType |-> change.resourceType,
         date |-> change.date]}
  /\ changesSeq' = changesSeq + 1
  /\ lastCall' = Call("LogChange", internalId, NoError)
  /\ answer' = NoAnswer
  /\ pager' = NoPager
  /\ UNCHANGED <<store, object, tags, reported, EmbeddedResources, applied, cascadeSignals, afterSignals, recycling,
                 ExportedResources, exportedSeq>>

\* LogChange(internalId, change)
LogChangeOp(internalId, change) ==
  /\ handle = "open"
  /\ Changes' = Changes \cup
       {[seq |-> changesSeq + 1, changeType |-> change.changeType,
         internalId |-> internalId, resourceType |-> change.resourceType,
         date |-> change.date]}
  /\ changesSeq' = changesSeq + 1
  /\ lastCall' = Call("LogChange", internalId, NoError)
  /\ answer' = NoAnswer
  /\ pager' = NoPager
  /\ UNCHANGED <<store, object, tags, reported, EmbeddedResources, applied, cascadeSignals, afterSignals, recycling,
                 ExportedResources, exportedSeq>>

\* LogExportedResource(resource)
LogExportedResourceOp(resource) ==
  /\ handle = "open"
  /\ ExportedResources' = ExportedResources \cup
       {[seq |-> exportedSeq + 1, resourceType |-> resource.resourceType,
         publicId |-> resource.publicId, modality |-> resource.modality,
         patientId |-> resource.patientId,
         studyInstanceUid |-> resource.studyInstanceUid,
         seriesInstanceUid |-> resource.seriesInstanceUid,
         sopInstanceUid |-> resource.sopInstanceUid, date |-> resource.date]}
  /\ exportedSeq' = exportedSeq + 1
  /\ lastCall' = Call("LogExportedResource", 0, NoError)
  /\ answer' = NoAnswer
  /\ pager' = NoPager
  /\ UNCHANGED <<store, object, tags, reported, EmbeddedResources, applied, cascadeSignals, afterSignals, recycling,
                 Changes, changesSeq>>

\* ClearTable(tableName): DELETE FROM <tableName>, for one of the two logs.
\* The counter of the sequence numbers is not part of the table and stays.
ClearTableOp(tableName) ==
  /\ handle = "open"
  /\ IF tableName = "Changes"
       THEN Changes' = {} /\ UNCHANGED ExportedResources
       ELSE ExportedResources' = {} /\ UNCHANGED Changes
  /\ lastCall' = Call("ClearTable", 0, NoError)
  /\ answer' = NoAnswer
  /\ pager' = NoPager
  /\ UNCHANGED <<store, object, tags, reported, EmbeddedResources, applied, cascadeSignals, afterSignals, recycling,
                 changesSeq, exportedSeq>>

\* what the callers log
LoggedChanges ==
  {[changeType |-> "NewPatient", resourceType |-> ResourceType_Patient, date |-> "date"]}

LoggedExports ==
  {[resourceType |-> ResourceType_Patient, publicId |-> "pub-a", modality |-> "remote",
    patientId |-> "p", studyInstanceUid |-> "", seriesInstanceUid |-> "",
    sopInstanceUid |-> "", date |-> "date"]}

LogNames == {"Changes", "ExportedResources"}

LogChange ==
  /\ changesSeq < MaxLog
  /\ \E internalId \in InternalIds, change \in LoggedChanges :
       LogChangeOp(internalId, change)

LogExportedResource ==
  /\ exportedSeq < MaxLog
  /\ \E resource \in LoggedExports : LogExportedResourceOp(resource)

GetChanges ==
  /\ \E since \in 0..MaxLog, maxResults \in MaxResultsValues :
       RangeCall("Changes", since, maxResults)
  /\ pager' = NoPager

GetExportedResources ==
  /\ \E since \in 0..MaxLog, maxResults \in MaxResultsValues :
       RangeCall("ExportedResources", since, maxResults)
  /\ pager' = NoPager

\* A caller following the cursor protocol: the first call with since = 0,
\* then, while done is false, a call with since = the last sequence returned.
SeqsOf(target) == [i \in 1..Len(target) |-> target[i].seq]

FirstPage ==
  \E log \in LogNames, maxResults \in MaxResultsValues \ {0} :
    /\ RangeCall(log, 0, maxResults)
    /\ pager' = [log |-> log, maxResults |-> maxResults,
                 collected |-> SeqsOf(answer'.target), done |-> answer'.done,
                 failed |-> lastCall'.error # NoError, pages |-> 1]

NextPage ==
  /\ pager.log \in LogNames
  /\ ~pager.done
  /\ ~pager.failed
  /\ RangeCall(pager.log,
               IF pager.collected = <<>> THEN 0
               ELSE pager.collected[Len(pager.collected)],
               pager.maxResults)
  /\ pager' = [pager EXCEPT !.collected = @ \o SeqsOf(answer'.target),
                            !.done = answer'.done,
                            !.failed = lastCall'.error # NoError,
                            !.pages = @ + 1]

\* the resources of the store: a Patient and, below it, a Study
ThePatient ==
  [internalId |-> 1, resourceType |-> ResourceType_Patient,
   publicId |-> "pub-a", parentId |-> NoParent]
TheStudy ==
  [internalId |-> 2, resourceType |-> ResourceType_Study,
   publicId |-> "pub-b", parentId |-> 1]

\* an open handle on a store that holds one Patient
InitLogs == OpenedOn({ThePatient}, 1, Call("CreateResource", 1, NoError))

NextLogs ==
  \/ LogChange
  \/ LogExportedResource
  \/ GetChanges
  \/ GetExportedResources
  \/ FirstPage
  \/ NextPage

SpecLogs == InitLogs /\ [][NextLogs]_vars

(***************************************************************************)
(* Looking a resource up by its public id                                  *)
(***************************************************************************)
\* an int64_t, as its high and its low 32 bits
Int64(hi, lo) == [hi |-> hi, lo |-> lo]

\* the int64_t that a row id held by the tables stands for
RowId64(rowId) == Int64(0, rowId)

\* Statement::ColumnInt: the low 32 bits of the column, as an int
ColumnInt(value) == value.lo

\* an int assigned to an int64_t is sign-extended
Int64OfInt(i) == Int64(IF i < 0 THEN -1 ELSE 0, i)

\* SELECT internalId, resourceType FROM Resources WHERE publicId=?
\* id = s.ColumnInt(0); type = s.ColumnInt(1); no row: return false
LookupResult(rows, publicId) ==
  LET selected == {r \in rows : r.publicId = publicId}
  IN  IF selected = {}
        THEN [op |-> "LookupResource", publicId |-> publicId, found |-> FALSE]
        ELSE LET row == CHOOSE r \in selected : TRUE
             IN  [op |-> "LookupResource", publicId |-> publicId, found |-> TRUE,
                  id |-> Int64OfInt(ColumnInt(RowId64(row.internalId))),
                  type |-> row.resourceType]

\* LookupResource(id, type, publicId)
LookupResourceOp(publicId) ==
  Query("LookupResource", 0, LookupResult(Resources, publicId))

\* the public ids a caller looks up: stored, deleted and never created ones
LookupPublicIds == {PublicIdList[i] : i \in 1 .. MaxRows}

LookupResource ==
  \E publicId \in LookupPublicIds : LookupResourceOp(publicId)

\* the caller deletes a resource it has created
DeleteStoredResource ==
  \E r \in Resources : DeleteResourceOp(r.internalId)

\* a handle opened on a store without resources, fresh or aged
InitLookup == \E last \in {0, AgedRowId} : OpenedWithCounter(last)

NextLookup ==
  \/ CreateResource
  \/ DeleteStoredResource
  \/ LookupResource

SpecLookup == InitLookup /\ [][NextLookup]_vars

(***************************************************************************)
(* Reparenting without the caller's discipline                             *)
(***************************************************************************)
\* a caller that attaches any resource to any other, or to itself
AttachAnyChild ==
  \E parent \in InternalIds, child \in InternalIds : AttachChildOp(parent, child)

\* the resources to reparent: patients and studies, under new public ids
CreateResourceToAttach ==
  /\ RowIdsIssued < MaxAttached
  /\ \E publicId \in CallerPublicIds,
        type \in {ResourceType_Patient, ResourceType_Study} :
       /\ PublicIdIsFree(Resources, publicId)
       /\ CreateResourceOp(publicId, type)

NextParents ==
  \/ CreateResourceToAttach
  \/ AttachAnyChild
  \/ DeleteResource

\* a patient and its study, as a disciplined caller left them
InitParents == OpenedOn({ThePatient, TheStudy}, 2, Call("AttachChild", 0, NoError))

SpecParents == InitParents /\ [][NextParents]_vars

(***************************************************************************)
(* The logs among the other operations                                     *)
(***************************************************************************)
ClearTable ==
  \E tableName \in LogNames :
    /\ (IF tableName = "Changes" THEN Changes ELSE ExportedResources) # {}
    /\ ClearTableOp(tableName)

\* the changes of the one patient the store starts with
LogChangeOfPatient ==
  /\ changesSeq < MaxLog
  /\ \E change \in LoggedChanges : LogChangeOp(ThePatient.internalId, change)

\* the mutations of that patient: its first metadata and its first attachment
FirstMetadata ==
  /\ Metadata = {}
  /\ \E type \in MetadataTypes, value \in MetadataValues :
       SetMetadataOp(ThePatient.internalId, type, value)

FirstAttachment ==
  /\ AttachedFiles = {}
  /\ \E attachment \in FileInfos : AddAttachmentOp(ThePatient.internalId, attachment)

\* the patient's study is created, once
CreateTheStudy ==
  /\ lastInsertRowId = ThePatient.internalId
  /\ CreateResourceOp(TheStudy.publicId, TheStudy.resourceType)

NextAudit ==
  \/ LogChangeOfPatient
  \/ LogExportedResource
  \/ ClearTable
  \/ CreateTheStudy
  \/ AttachChild
  \/ FirstMetadata
  \/ FirstAttachment
  \/ DeleteStoredResource

SpecAudit == InitLogs /\ [][NextAudit]_vars

(***************************************************************************)
(* The recycling queue while resources come and go                         *)
(***************************************************************************)
NextEviction ==
  \/ CreateResourceToAttach
  \/ SetProtectedPatient
  \/ DeleteStoredResource
  \/ SelectPatientToRecycle

SpecEviction == InitOpened /\ [][NextEviction]_vars

(***************************************************************************)
(* A delete statement that fails while it runs                             *)
(***************************************************************************)
\* DeleteResource(id) when the backend fails part-way through s.Run(), for
\* instance on an I/O error: the callbacks of the rows handled so far have
\* called the listener, the statement is undone and no row is removed, and
\* the exception leaves DeleteResource before the remaining-ancestor call.
DeleteResourceInterruptedOp(id) ==
  /\ handle = "open"
  /\ StatementCompiles(registered)
  /\ LET removed == CascadeDeleted(Resources, DeletedByStatement(Resources, id))
         gone    == ExistingIds(removed)
         removedFiles == {a \in AttachedFiles : a.id \in gone}
     IN  /\ removed # {}
         /\ \E order \in Orderings(RemainingAncestorReports(Resources, removed)),
               handled \in SUBSET removed, handledFiles \in SUBSET removedFiles :
               \E k \in 0 .. Len(order) :
                 /\ signalRemainingAncestor_' =
                      ComputeAll(Reset(signalRemainingAncestor_), SubSeq(order, 1, k))
                 /\ reported' = SubSeq(order, 1, k)
                 /\ cascadeSignals' = CascadeCalls(handled, handledFiles)
  /\ afterSignals' = <<>>
  /\ lastCall' = Call("DeleteResource", id, SQLiteError)
  /\ applied' = <<>>
  /\ UNCHANGED <<store, handle, registered, listener_>>
  /\ UNCHANGED <<recycling, logs, queries, tags, EmbeddedResources>>

DeleteResourceInterrupted ==
  \E id \in InternalIds : DeleteResourceInterruptedOp(id)

NextInterrupted ==
  \/ CreateResourceToAttach
  \/ AttachChild
  \/ FirstAttachment
  \/ DeleteResource
  \/ DeleteResourceInterrupted

SpecInterrupted == InitParents /\ [][NextInterrupted]_vars

(***************************************************************************)
(* Change records whose resource is deleted                                *)
(***************************************************************************)
\* SELECT * FROM Changes ORDER BY seq DESC LIMIT 1
SelectLast(table) ==
  LET ascending == OrderBySeq(table)
  IN  IF ascending = <<>> THEN <<>> ELSE <<ascending[Len(ascending)]>>

\* GetLastChange(target): GetChangesInternal(target, done, s, 1)
GetLastChangeOp ==
  LET result == GetChangesInternal(SelectLast(Changes), 1)
  IN  /\ handle = "open"
      /\ lastCall' = Call("GetLastChange", 0, result.error)
      /\ answer' = [op |-> "GetLastChange", target |-> result.target]
      /\ pager' = NoPager
      /\ UNCHANGED <<store, object, tags, reported, EmbeddedResources, applied, cascadeSignals, afterSignals,
                     recycling, logs>>

GetLastChange == GetLastChangeOp

\* an open handle on a store that holds a Patient and its Study
InitChanges == OpenedOn({ThePatient, TheStudy}, 2, Call("AttachChild", 0, NoError))

NextChanges ==
  \/ LogChange
  \/ DeleteStoredResource
  \/ GetChanges
  \/ GetLastChange

SpecChanges == InitChanges /\ [][NextChanges]_vars

(***************************************************************************)
(* Attachments                                                             *)
(***************************************************************************)
\* the rows matched by ... FROM AttachedFiles WHERE id=? AND fileType=?
AttachedFilesOf(files, id, contentType) ==
  {a \in files : a.id = id /\ a.fileType = contentType}

\* DeleteAttachment(id, attachment): the rule of the schema on removed
\* attachment rows calls SignalFileDeleted, as in a cascade
DeleteAttachmentOp(id, contentType) ==
  /\ handle = "open"
  /\ IF ~StatementCompiles(registered)
       THEN /\ lastCall' = Call("DeleteAttachment", id, SQLiteError)
            /\ cascadeSignals' = EmptyBag
            /\ UNCHANGED AttachedFiles
       ELSE LET removedFiles == AttachedFilesOf(AttachedFiles, id, contentType)
            IN  /\ AttachedFiles' = AttachedFiles \ removedFiles
                /\ cascadeSignals' = FileDeletedCalls(removedFiles)
                /\ lastCall' = Call("DeleteAttachment", id, NoError)
  /\ applied' = <<>>
  /\ afterSignals' = <<>>
  /\ UNCHANGED <<schemaExists, GlobalProperties, Resources, lastInsertRowId,
                 Metadata, object>>
  /\ UNCHANGED satellite

\* LookupAttachment(attachment, id, contentType): the first selected row, as
\* FileInfo(uuid, contentType, uncompressedSize, uncompressedMD5,
\* compressionType, compressedSize, compressedMD5)
LookupAttachmentResult(files, id, contentType) ==
  LET selected == AttachedFilesOf(files, id, contentType)
  IN  IF selected = {}
        THEN [op |-> "LookupAttachment", found |-> FALSE]
        ELSE LET s == CHOOSE a \in selected : TRUE
             IN  [op |-> "LookupAttachment", found |-> TRUE,
                  attachment |->
                    FileInfo(s.uuid, contentType, s.uncompressedSize,
                             s.uncompressedMD5, s.compressionType,
                             s.compressedSize, s.compressedMD5)]

LookupAttachmentOp(id, contentType) ==
  Query("LookupAttachment", id,
        LookupAttachmentResult(AttachedFiles, id, contentType))

\* the records a caller attaches in place of the ones of FileInfos
OtherFileInfos ==
  { FileInfo("uuid-2", t, 20, "md5-of-other-plain", 1, 20, "md5-of-other-packed") :
      t \in FileContentTypes }

AddOtherAttachment ==
  /\ RowsCreated < MaxRows
  /\ \E id \in InternalIds, attachment \in OtherFileInfos :
       AddAttachmentOp(id, attachment)

DeleteAttachment ==
  \E id \in InternalIds, contentType \in FileContentTypes :
    DeleteAttachmentOp(id, contentType)

LookupAttachment ==
  \E id \in InternalIds, contentType \in FileContentTypes :
    LookupAttachmentOp(id, contentType)

NextAttachments ==
  \/ AddAttachment
  \/ AddOtherAttachment
  \/ DeleteAttachment
  \/ LookupAttachment

\* an open handle on a store that holds one Patient
SpecAttachments == InitLogs /\ [][NextAttachments]_vars

(***************************************************************************)
(* Main DICOM tags and identifiers                                         *)
(***************************************************************************)
\* DicomTag(group, element)
DicomTag(group, element) == [group |-> group, element |-> element]

DICOM_TAG_PATIENT_ID == DicomTag(16, 32)
DICOM_TAG_STUDY_INSTANCE_UID == DicomTag(32, 13)
DICOM_TAG_PATIENT_NAME == DicomTag(16, 16)

\* the tags and values a caller passes
DicomTags ==
  {DICOM_TAG_PATIENT_ID, DICOM_TAG_STUDY_INSTANCE_UID, DICOM_TAG_PATIENT_NAME}
TagValues == {"value-1", "value-2"}

\* the static classification of (group, element)
IsIdentifier(tag) ==
  tag \in {DICOM_TAG_PATIENT_ID, DICOM_TAG_STUDY_INSTANCE_UID}

\* the row SetMainDicomTagsInternal binds
TagRow(id, tag, value) ==
  [id |-> id, tagGroup |-> tag.group, tagElement |-> tag.element, value |-> value]

\* the backend keeps one value per (id, tagGroup, tagElement)
TagKeyIsFree(rows, id, tag) ==
  \A t \in rows :
    ~(t.id = id /\ t.tagGroup = tag.group /\ t.tagElement = tag.element)

\* as TagTable, with the two INSERT statements exchanged
TagTable_Exchanged(tag) ==
  IF IsIdentifier(tag) THEN "MainDicomTags" ELSE "DicomIdentifiers"

\* the table SetMainDicomTag inserts into
TagTable(tag) ==
  IF IsIdentifier(tag) THEN "DicomIdentifiers" ELSE "MainDicomTags"

\* INSERT INTO <table> VALUES(?, ?, ?, ?)
InsertTag(rows, id, tag, value) ==
  IF ForeignKeyHolds(Resources, id) /\ TagKeyIsFree(rows, id, tag)
    THEN [error |-> NoError, rows |-> rows \cup {TagRow(id, tag, value)}]
    ELSE [error |-> SQLiteError, rows |-> rows]

\* SetMainDicomTag(id, tag, value)
SetMainDicomTagOp(id, tag, value) ==
  /\ handle = "open"
  /\ IF TagTable(tag) = "DicomIdentifiers"
       THEN LET done == InsertTag(DicomIdentifiers, id, tag, value)
            IN  /\ DicomIdentifiers' = done.rows
                /\ lastCall' = Call("SetMainDicomTag", id, done.error)
                /\ UNCHANGED MainDicomTags
       ELSE LET done == InsertTag(MainDicomTags, id, tag, value)
            IN  /\ MainDicomTags' = done.rows
                /\ lastCall' = Call("SetMainDicomTag", id, done.error)
                /\ UNCHANGED DicomIdentifiers
  /\ applied' = <<>>
  /\ cascadeSignals' = EmptyBag
  /\ afterSignals' = <<>>
  /\ UNCHANGED <<store, object, recycling, logs, queries, reported, EmbeddedResources>>

\* the ids of the selected rows, each as often as it is selected
IdsSelected(selected) ==
  [id \in {t.id : t \in selected} |-> Cardinality({t \in selected : t.id = id})]

\* SELECT id FROM DicomIdentifiers WHERE tagGroup=? AND tagElement=? and value=?
SelectByTagAndValue(rows, tag, value) ==
  {t \in rows : /\ t.tagGroup = tag.group
                /\ t.tagElement = tag.element
                /\ t.value = value}

\* SELECT id FROM DicomIdentifiers WHERE value=?
SelectByValue(rows, value) == {t \in rows : t.value = value}

\* LookupIdentifier(target, tag, value)
LookupIdentifierOp(tag, value) ==
  /\ handle = "open"
  /\ IF ~IsIdentifier(tag)
       THEN /\ lastCall' = Call("LookupIdentifier", 0, ErrorCode_ParameterOutOfRange)
            /\ answer' = NoAnswer
       ELSE /\ lastCall' = Call("LookupIdentifier", 0, NoError)
            /\ answer' =
                 [op |-> "LookupIdentifier",
                  target |-> IdsSelected(SelectByTagAndValue(DicomIdentifiers, tag, value))]
  /\ UNCHANGED <<store, object, tags, reported, EmbeddedResources, applied, cascadeSignals, afterSignals,
                 recycling, logs, pager>>

\* LookupIdentifier(target, value)
LookupIdentifierByValueOp(value) ==
  Query("LookupIdentifierByValue", 0,
        [op |-> "LookupIdentifierByValue",
         target |-> IdsSelected(SelectByValue(DicomIdentifiers, value))])

SetMainDicomTag ==
  /\ Cardinality(MainDicomTags) + Cardinality(DicomIdentifiers) < MaxTags
  /\ \E id \in InternalIds, tag \in DicomTags, value \in TagValues :
       SetMainDicomTagOp(id, tag, value)

LookupIdentifier ==
  \E tag \in DicomTags, value \in TagValues : LookupIdentifierOp(tag, value)

LookupIdentifierByValue ==
  \E value \in TagValues : LookupIdentifierByValueOp(value)

\* an open handle on a store that holds a Patient and its Study
InitTags == OpenedOn({ThePatient, TheStudy}, 2, Call("AttachChild", 0, NoError))

NextTags ==
  \/ DeleteStoredResource
  \/ SetMainDicomTag
  \/ LookupIdentifier
  \/ LookupIdentifierByValue

SpecTags == InitTags /\ [][NextTags]_vars

(***************************************************************************)
(* Vocabulary of the properties                                            *)
(***************************************************************************)
ParentOf(rows, id) ==
  IF \E r \in rows : r.internalId = id
    THEN (CHOOSE r \in rows : r.internalId = id).parentId
    ELSE NoParent

\* the resource reached from id by following parentId n times
RECURSIVE NthParent(_, _, _)
NthParent(rows, id, n) ==
  IF n = 0 THEN id ELSE ParentOf(rows, NthParent(rows, id, n - 1))

\* id and its transitive descendants
SubtreeIds(rows, id) ==
  { r.internalId : r \in { d \in rows :
      \E n \in 0..Cardinality(rows) : NthParent(rows, d.internalId, n) = id } }

\* the resources above id
ProperAncestors(rows, id) ==
  { a \in rows : \E n \in 1..Cardinality(rows) : NthParent(rows, id, n) = a.internalId }

ChildrenOf(rows, id) == {r \in rows : r.parentId = id}

\* how many listener calls of one kind a bag holds
CountSignals(bag, name) ==
  BagCardinality([e \in {x \in BagToSet(bag) : x.signal = name} |-> bag[e]])

DeletedSignal(r) == Signal("SignalChange", <<"Deleted", r.resourceType, r.publicId>>)

AncestorSignal(r) == Signal("SignalRemainingAncestor", <<r.resourceType, r.publicId>>)

\* the attachment record of a row, a NULL MD5 read as the empty string
AttachmentRecord(a) ==
  [uuid |-> a.uuid, contentType |-> a.fileType,
   uncompressedSize |-> a.uncompressedSize,
   uncompressedMD5 |-> IF a.uncompressedMD5 = SqlNull THEN "" ELSE a.uncompressedMD5,
   compressionType |-> a.compressionType, compressedSize |-> a.compressedSize,
   compressedMD5 |-> IF a.compressedMD5 = SqlNull THEN "" ELSE a.compressedMD5]

FileSignal(a) == Signal("SignalFileDeleted", <<AttachmentRecord(a)>>)

DeleteReturned == lastCall.op = "DeleteResource" /\ lastCall.error = NoError

(***************************************************************************)
(* C1..C8: cascading delete                                                *)
(***************************************************************************)
\* C1: a DeleteResource(id) of an existing resource that returns leaves
\* exactly the resources outside the subtree of id, and exactly the
\* attachments and metadata of those resources; the whole subtree goes in the
\* one step.
C1_DeleteRemovesExactlyTheSubtree ==
  [][\A id \in ExistingIds(Resources) :
       lastCall' = Call("DeleteResource", id, NoError) =>
         LET sub == SubtreeIds(Resources, id)
         IN  /\ Resources' = {r \in Resources : r.internalId \notin sub}
             /\ AttachedFiles' = {a \in AttachedFiles : a.id \notin sub}
             /\ Metadata' = {m \in Metadata : m.id \notin sub}]_vars

\* a delete removed a resource, a descendant and an attachment, and left a resource
C1_Witness ==
  /\ DeleteReturned
  /\ CountSignals(cascadeSignals, "SignalChange") >= 2
  /\ CountSignals(cascadeSignals, "SignalFileDeleted") >= 1
  /\ Resources # {}

\* C2: in every DeleteResource call the listener gets SignalChange(Deleted,
\* kind, publicId) once for each resource row the call removes, with the
\* row's own kind and public id, and no other SignalChange.
C2_OneDeletedSignalPerRemovedResource ==
  [][lastCall'.op = "DeleteResource" =>
       LET removed == Resources \ Resources'
       IN  /\ \A r \in removed :
                CopiesIn(DeletedSignal(r), cascadeSignals')
                  = Cardinality({q \in removed : DeletedSignal(q) = DeletedSignal(r)})
           /\ \A e \in BagToSet(cascadeSignals') :
                e.signal = "SignalChange" => \E r \in removed : e = DeletedSignal(r)
           /\ \A i \in 1..Len(afterSignals') : afterSignals'[i].signal # "SignalChange"]_vars

\* a delete removed resources of two kinds and left a resource
C2_Witness ==
  /\ DeleteReturned
  /\ \E e, f \in BagToSet(cascadeSignals) :
       /\ e.signal = "SignalChange" /\ f.signal = "SignalChange"
       /\ e.args[2] # f.args[2]
  /\ Resources # {}

\* C3: in every DeleteResource call the listener gets SignalFileDeleted once
\* for each attachment row the call removes, with the full record of the row;
\* two removed rows with equal records give two calls.
C3_OneFileSignalPerRemovedAttachment ==
  [][lastCall'.op = "DeleteResource" =>
       LET removed == AttachedFiles \ AttachedFiles'
       IN  /\ \A a \in removed :
                CopiesIn(FileSignal(a), cascadeSignals')
                  = Cardinality({b \in removed : FileSignal(b) = FileSignal(a)})
           /\ \A e \in BagToSet(cascadeSignals') :
                e.signal = "SignalFileDeleted" => \E a \in removed : e = FileSignal(a)
           /\ \A i \in 1..Len(afterSignals') :
                afterSignals'[i].signal # "SignalFileDeleted"]_vars

\* a delete removed two attachments with equal records, and one call each was made
C3_Witness ==
  /\ DeleteReturned
  /\ \E e \in BagToSet(cascadeSignals) :
       e.signal = "SignalFileDeleted" /\ CopiesIn(e, cascadeSignals) = 2

\* C4: in every DeleteResource call, if surviving-ancestor reports were
\* produced the listener gets exactly one SignalRemainingAncestor, which is
\* one of the reports and has the smallest kind of them all; if none was
\* produced it gets no SignalRemainingAncestor.
C4_OneRemainingAncestorOfSmallestKind ==
  [][lastCall'.op = "DeleteResource" =>
       LET reports == IF lastCall'.error = NoError
                        THEN RemainingAncestorReports(Resources, Resources \ Resources')
                        ELSE {}
       IN  /\ \A e \in BagToSet(cascadeSignals') : e.signal # "SignalRemainingAncestor"
           /\ IF reports = {}
                THEN afterSignals' = <<>>
                ELSE /\ Len(afterSignals') = 1
                     /\ afterSignals'[1].signal = "SignalRemainingAncestor"
                     /\ \E rep \in reports : afterSignals'[1].args = <<rep[2], rep[1]>>
                     /\ \A rep \in reports : afterSignals'[1].args[1] <= rep[2]]_vars

\* a Series was deleted below a Study and a Patient that both survive, and
\* the Patient was named
C4_Witness ==
  /\ DeleteReturned
  /\ Len(afterSignals) = 1
  /\ afterSignals[1].args[1] = ResourceType_Patient
  /\ \E e \in BagToSet(cascadeSignals) :
       e.signal = "SignalChange" /\ e.args[2] = ResourceType_Series
  /\ \E st \in Resources : st.resourceType = ResourceType_Study /\ st.parentId # NoParent

\* a chain Patient > Study > Series > Instance in which every link has one child
IsChain(rows, i) ==
  /\ i.resourceType = ResourceType_Instance
  /\ \A a \in ProperAncestors(rows, i.internalId) :
       Cardinality(ChildrenOf(rows, a.internalId)) = 1
  /\ {a.resourceType : a \in ProperAncestors(rows, i.internalId)}
       = {ResourceType_Patient, ResourceType_Study, ResourceType_Series}

\* C5: in a chain Patient > Study > Series > Instance, deleting the Instance,
\* the last child of the Series, gives one SignalRemainingAncestor, and it
\* names the Patient of the chain.
C5_ChainNamesThePatient ==
  [][\A i \in Resources :
       (IsChain(Resources, i) /\ lastCall' = Call("DeleteResource", i.internalId, NoError)) =>
          /\ Len(afterSignals') = 1
          /\ \E p \in ProperAncestors(Resources, i.internalId) :
               /\ p.resourceType = ResourceType_Patient
               /\ afterSignals'[1] = AncestorSignal(p)]_vars

\* the Instance of a chain was deleted: Series, Study and Patient are left
\* and the Patient was named
C5_Witness ==
  /\ DeleteReturned
  /\ \E e \in BagToSet(cascadeSignals) :
       e.signal = "SignalChange" /\ e.args[2] = ResourceType_Instance
  /\ {r.resourceType : r \in Resources}
       = {ResourceType_Patient, ResourceType_Study, ResourceType_Series}
  /\ Len(afterSignals) = 1
  /\ afterSignals[1].args[1] = ResourceType_Patient

\* a resource without children that is the only child of its parent
IsOnlyChildLeaf(rows, l) ==
  /\ l.parentId # NoParent
  /\ ChildrenOf(rows, l.internalId) = {}
  /\ ChildrenOf(rows, l.parentId) = {l}

\* C6, as the code has it: deleting a leaf that is the only child of its
\* parent leaves the parent in the store and gives one SignalRemainingAncestor;
\* it names the parent when the parent has no parent of its own, and otherwise
\* the ancestor of the leaf with the smallest kind.
C6_OnlyChildLeafKeepsParentNamesTopmost ==
  [][\A l \in Resources :
       (IsOnlyChildLeaf(Resources, l)
          /\ lastCall' = Call("DeleteResource", l.internalId, NoError)) =>
          /\ \E p \in Resources' : p.internalId = l.parentId
          /\ Len(afterSignals') = 1
          /\ \E top \in ProperAncestors(Resources, l.internalId) :
               /\ \A a \in ProperAncestors(Resources, l.internalId) :
                    top.resourceType <= a.resourceType
               /\ afterSignals'[1] = AncestorSignal(top)
               /\ ParentOf(Resources, l.parentId) = NoParent => top.internalId = l.parentId]_vars

\* an only-child leaf with a top-level parent was deleted: the parent is
\* alone in the store and was named
C6_Witness ==
  /\ DeleteReturned
  /\ CountSignals(cascadeSignals, "SignalChange") = 1
  /\ \E p \in Resources :
       /\ Resources = {p}
       /\ afterSignals = <<AncestorSignal(p)>>

\* C6, as stated: deleting a leaf that is the only child of its parent gives
\* a SignalRemainingAncestor naming that parent.
C6_OnlyChildLeafNamesItsParent ==
  [][\A l \in Resources :
       (IsOnlyChildLeaf(Resources, l)
          /\ lastCall' = Call("DeleteResource", l.internalId, NoError)) =>
          /\ \E p \in Resources' : p.internalId = l.parentId
          /\ \E p \in Resources :
               p.internalId = l.parentId /\ afterSignals' = <<AncestorSignal(p)>>]_vars

\* C7: deleting a resource without children gives one SignalChange(Deleted)
\* for it, one SignalFileDeleted for each of its attachments, and no
\* SignalRemainingAncestor if it has no parent, otherwise exactly one, naming
\* its parent or a higher ancestor.
C7_LeafDeleteSignals ==
  [][\A l \in Resources :
       (ChildrenOf(Resources, l.internalId) = {}
          /\ lastCall' = Call("DeleteResource", l.internalId, NoError)) =>
          /\ CountSignals(cascadeSignals', "SignalChange") = 1
          /\ CopiesIn(DeletedSignal(l), cascadeSignals') = 1
          /\ CountSignals(cascadeSignals', "SignalFileDeleted")
               = Cardinality({a \in AttachedFiles : a.id = l.internalId})
          /\ \A e \in BagToSet(cascadeSignals') :
               e.signal \in {"SignalChange", "SignalFileDeleted"}
          /\ IF l.parentId = NoParent
               THEN afterSignals' = <<>>
               ELSE /\ Len(afterSignals') = 1
                    /\ \E a \in ProperAncestors(Resources, l.internalId) :
                         afterSignals'[1] = AncestorSignal(a)]_vars

\* a leaf with two attachments and a parent was deleted
C7_Witness ==
  /\ DeleteReturned
  /\ CountSignals(cascadeSignals, "SignalChange") = 1
  /\ CountSignals(cascadeSignals, "SignalFileDeleted") = 2
  /\ Len(afterSignals) = 1

\* a DeleteResource call for an internal id no row has
DeleteOfMissing(id) ==
  /\ id \notin ExistingIds(Resources)
  /\ lastCall'.op = "DeleteResource"
  /\ lastCall'.id = id

DeleteDidNothing ==
  /\ lastCall'.error = NoError
  /\ UNCHANGED store
  /\ cascadeSignals' = EmptyBag
  /\ afterSignals' = <<>>

\* C8: DeleteResource with an id that does not exist returns without error,
\* leaves every table as it was and calls nothing on the listener, whatever
\* earlier DeleteResource calls did.
C8_MissingIdIsNoOp ==
  [][\A id \in InternalIds : DeleteOfMissing(id) => DeleteDidNothing]_vars

(***************************************************************************)
(* C9, C10: the schema version at Open                                     *)
(***************************************************************************)
\* the store holds this text as its DatabaseSchemaVersion
Stored(text) ==
  /\ schemaExists
  /\ GlobalProperties = {<<GlobalProperty_DatabaseSchemaVersion, text>>}

NoScriptFailed == lastCall'.error # SQLiteError

\* C9: Open runs the migrations in order: from 3, 3-to-4 then 4-to-5; from 4,
\* 4-to-5 alone; from 5 or on a fresh store, none; no script runs twice in
\* one Open.  (An Open that a failing script ends has run a prefix of these.)
C9_MigrationOrder ==
  [][lastCall'.op = "Open" =>
       /\ Stored(<<"3">>) =>
            IF NoScriptFailed
              THEN applied' = <<UPGRADE_DATABASE_3_TO_4, UPGRADE_DATABASE_4_TO_5>>
                   /\ lastCall'.error = NoError
              ELSE applied' \in {<<>>, <<UPGRADE_DATABASE_3_TO_4>>}
       /\ Stored(<<"4">>) =>
            IF NoScriptFailed
              THEN applied' = <<UPGRADE_DATABASE_4_TO_5>> /\ lastCall'.error = NoError
              ELSE applied' = <<>>
       /\ Stored(<<"5">>) => applied' = <<>> /\ lastCall'.error = NoError
       /\ ~schemaExists =>
            applied' = <<>> /\ (NoScriptFailed => lastCall'.error = NoError)
       /\ \A i, j \in 1..Len(applied') : applied'[i] = applied'[j] => i = j
       /\ \A i \in 1..Len(applied') : applied'[i] = UPGRADE_DATABASE_3_TO_4 => i = 1]_vars

\* an Open of a store at version 3 ran both scripts and succeeded
C9_Witness ==
  /\ lastCall = Call("Open", 0, NoError)
  /\ applied = <<UPGRADE_DATABASE_3_TO_4, UPGRADE_DATABASE_4_TO_5>>
  /\ handle = "open"

\* the text Open reads as the version: the stored one, "Unknown" if there is none
VersionRead ==
  LET found == LookupGlobalProperty(GlobalProperties, GlobalProperty_DatabaseSchemaVersion)
  IN  IF found.found THEN found.target ELSE Unknown

OutsideSupportedVersions(text) ==
  LET v == lexical_cast(text)
  IN  v.thrown \/ ~(IsVersion(v, 3) \/ IsVersion(v, 4) \/ IsVersion(v, 5))

\* C10: an Open of an existing store whose version text does not parse, or
\* parses to a number outside {3, 4, 5}, fails with
\* IncompatibleDatabaseVersion.
C10_UnsupportedVersionIsIncompatible ==
  [][(lastCall'.op = "Open" /\ schemaExists /\ OutsideSupportedVersions(VersionRead)) =>
       lastCall'.error = ErrorCode_IncompatibleDatabaseVersion]_vars

\* C11: an Open of an initialised store whose version text does not parse,
\* or parses to a number outside {3, 4, 5}, fails, runs no migration script
\* and leaves the DatabaseSchemaVersion property and every table as they were.
C11_RejectedVersionLeavesStoreAlone ==
  [][(lastCall'.op = "Open" /\ schemaExists /\ OutsideSupportedVersions(VersionRead)) =>
       /\ lastCall'.error # NoError
       /\ handle' = "failed"
       /\ applied' = <<>>
       /\ UNCHANGED store]_vars

\* an Open of a store at version "99" failed and the store still says "99"
C11_Witness ==
  /\ lastCall.op = "Open"
  /\ lastCall.error # NoError
  /\ applied = <<>>
  /\ GlobalProperties = {<<GlobalProperty_DatabaseSchemaVersion, <<"9", "9">>>>}

\* C12: from a successful Open on, all three cascade callbacks are registered
\* with the handle, also before any SetListener call; none is registered when
\* Open failed.
C12_OpenRegistersAllCallbacks ==
  /\ handle = "open" => registered = TriggerFunctions
  /\ handle = "failed" => registered = {}

(***************************************************************************)
(* C13..C16: the recycling queue                                           *)
(***************************************************************************)
\* e is the entry of entries with the smallest insertion sequence
IsOldestOf(e, entries) == e \in entries /\ \A f \in entries : e.seq <= f.seq

\* the answer is the oldest entry of entries, or "none" if there is none
AnswersOldestOf(result, entries) ==
  IF entries = {}
    THEN ~result.found
    ELSE /\ result.found
         /\ \E e \in entries : IsOldestOf(e, entries) /\ e.patientId = result.internalId

C15_UnprotectInsertsOnlyIfAbsent ==
  [][/\ (lastCall'.op = "SetProtectedPatient" /\ ~answer'.isProtected) =>
          IF \E e \in PatientRecyclingOrder : e.patientId = lastCall'.id
            THEN UNCHANGED recycling /\ lastCall'.error = NoError
            ELSE lastCall'.error = NoError =>
                   \E n \in Nat \cap (1..recyclingSeq') :
                      /\ \A e \in PatientRecyclingOrder : e.seq < n
                      /\ PatientRecyclingOrder' = PatientRecyclingOrder \cup
                           {[seq |-> n, patientId |-> lastCall'.id]}
     /\ \A e, f \in PatientRecyclingOrder' : e.patientId = f.patientId => e = f]_vars

\* an id that is the older of two entries was unprotected again and kept its place
C15_Witness ==
  /\ lastCall.op = "SetProtectedPatient"
  /\ lastCall.error = NoError
  /\ ~answer.isProtected
  /\ \E e, f \in PatientRecyclingOrder :
       e.patientId = lastCall.id /\ e.seq < f.seq

TableOf(log) == IF log = "Changes" THEN Changes ELSE ExportedResources

\* the sequence numbers of a log above since
Window(log, since) == {r.seq : r \in {q \in TableOf(log) : q.seq > since}}

\* min(maxResults, k), maxResults a uint32_t
MinOf(maxResults, k) == IF maxResults < 0 \/ maxResults > k THEN k ELSE maxResults

IsRangeQuery(call) == call.op \in {"GetChanges", "GetExportedResources"}

\* t lists, in ascending order, the n smallest elements of W
IsFirstOf(t, n, W) ==
  /\ Len(t) = n
  /\ \A i \in 1..Len(t) : t[i] \in W
  /\ \A i, j \in 1..Len(t) : i < j => t[i] < t[j]
  /\ \A x \in W : (\A i \in 1..Len(t) : t[i] # x) => \A i \in 1..Len(t) : t[i] < x

\* C17: a range query that returns gives exactly the first
\* min(maxResults, k) records, in ascending order, of the k records with a
\* sequence above since.
C17_RangeReturnsFirstOfWindow ==
  [][(IsRangeQuery(lastCall') /\ lastCall'.error = NoError) =>
       LET W == Window(answer'.log, answer'.since)
       IN  /\ IsFirstOf(SeqsOf(answer'.target),
                        MinOf(answer'.maxResults, Cardinality(W)), W)
           /\ \A i \in 1..Len(answer'.target) :
                \E r \in TableOf(answer'.log) :
                  /\ r.seq = answer'.target[i].seq
                  /\ r.resourceType = answer'.target[i].resourceType
                  /\ r.date = answer'.target[i].date]_vars

\* the sequence a further record would have to exceed
LastReturned(a) ==
  IF a.target = <<>> THEN a.since ELSE a.target[Len(a.target)].seq

\* C18: done is true exactly when fewer than maxResults records were
\* returned or no record has a sequence above the last one returned (above
\* since, if none was returned).
C18_DoneIffShortOrNothingBeyond ==
  [][(IsRangeQuery(lastCall') /\ lastCall'.error = NoError) =>
       (answer'.done <=>
          \/ SizeBelow(Len(answer'.target), answer'.maxResults)
          \/ \A r \in TableOf(answer'.log) : r.seq <= LastReturned(answer'))]_vars

\* exactly maxResults records were returned, there is none beyond, done is true
C18_Witness ==
  /\ IsRangeQuery(lastCall)
  /\ lastCall.error = NoError
  /\ answer.maxResults >= 2
  /\ Len(answer.target) = answer.maxResults
  /\ answer.done

AllSeqs(log) == SeqsOf(OrderBySeq(TableOf(log)))

\* C19: a caller following the cursor protocol with maxResults = N >= 1 on a
\* log that is not modified meanwhile gets every record once, in ascending
\* order, and ends with done = true; N records give done on the first call,
\* N + 1 records give done = false and then the last record with done = true.
C19_CursorProtocolReturnsEverything ==
  (pager.log \in LogNames /\ ~pager.failed) =>
    LET all == AllSeqs(pager.log)
        N   == pager.maxResults
    IN  /\ Len(pager.collected) <= Len(all)
        /\ pager.collected = SubSeq(all, 1, Len(pager.collected))
        /\ pager.done => pager.collected = all
        /\ ~pager.done => Len(pager.collected) < Len(all)
        /\ (pager.pages = 1 /\ Len(all) = N) => pager.done
        /\ (pager.pages = 1 /\ N \in 1..MaxLog /\ Len(all) = N + 1) => ~pager.done
        /\ (pager.pages = 2 /\ N \in 1..MaxLog /\ Len(all) = N + 1) => pager.done

\* C20: a resource created by CreateResource(publicId, kind) and not deleted
\* since is found by LookupResource(publicId), with the internal id that
\* CreateResource returned and with its kind; a public id never created, or
\* whose resource was deleted, is not found.  (CreateResource returns the id
\* of the one row it adds, and a stored row keeps its id, public id and kind.)
C20_LookupReturnsCreatedIdAndKind ==
  [][/\ (lastCall'.op = "CreateResource" /\ lastCall'.error = NoError) =>
          \E r \in Resources' :
            /\ Resources' = Resources \cup {r}
            /\ r \notin Resources
            /\ r.internalId = lastCall'.id
     /\ \A r \in Resources' : \A q \in Resources :
          q.internalId = r.internalId =>
            q.publicId = r.publicId /\ q.resourceType = r.resourceType
     /\ lastCall'.op = "LookupResource" =>
          LET live == {r \in Resources : r.publicId = answer'.publicId}
          IN  /\ answer'.found <=> live # {}
              /\ \A r \in live :
                   /\ answer'.id = RowId64(r.internalId)
                   /\ answer'.type = r.resourceType]_vars

(***************************************************************************)
(* C21..C25: uniqueness, attachments, tags, change resolution, parents     *)
(***************************************************************************)
UniquePublicIds(rows) ==
  \A r \in rows : \A q \in rows : r.publicId = q.publicId => r = q

\* C21: no two stored resources ever share a public id: a CreateResource
\* either adds one row whose public id no stored resource held, or fails
\* with a propagated error and leaves the index as it was; so the statement
\* of LookupResource never selects two rows.
C21_PublicIdsAreUnique ==
  [][/\ UniquePublicIds(Resources')
     /\ \A p \in LookupPublicIds :
          Cardinality({r \in Resources' : r.publicId = p}) <= 1
     /\ lastCall'.op = "CreateResource" =>
          \/ /\ lastCall'.error = NoError
             /\ \E r \in Resources' :
                  /\ Resources' = Resources \cup {r}
                  /\ \A q \in Resources : q.publicId # r.publicId
          \/ /\ lastCall'.error # NoError
             /\ UNCHANGED <<store, satellite>>]_vars

\* a CreateResource was refused on a store that holds resources
C21_Witness ==
  /\ lastCall.op = "CreateResource"
  /\ lastCall.error = SQLiteError
  /\ Resources # {}

AtMostOnePerPair(files) ==
  \A a \in files : \A b \in files :
    (a.id = b.id /\ a.fileType = b.fileType) => a = b

\* C22: attachments are upserted: there is at most one attachment per
\* (resource id, content kind), and an AddAttachment to an existing resource
\* succeeds, also for a pair that already has an attachment, after which
\* LookupAttachment returns the record just added.
C22_AttachmentsAreUpserted ==
  [][/\ AtMostOnePerPair(AttachedFiles')
     /\ \A id \in ExistingIds(Resources) :
          \A attachment \in FileInfos \cup OtherFileInfos :
            AddAttachmentOp(id, attachment) =>
              /\ lastCall'.error = NoError
              /\ LookupAttachmentResult(AttachedFiles', id, attachment.contentType)
                   = [op |-> "LookupAttachment", found |-> TRUE,
                      attachment |-> attachment]]_vars

TagOf(t) == DicomTag(t.tagGroup, t.tagElement)

\* C23: SetMainDicomTag stores a tag in exactly one of the two sets, chosen
\* by the classification of the tag alone.  An identifier tag goes to the
\* identifier set only, and LookupIdentifier(tag, value) then returns the
\* resource id; a tag that is no identifier goes to the general set only, it
\* leaves the identifier set as it was, LookupIdentifier(tag, value) refuses
\* such a tag, and LookupIdentifier(value) returns only resources that hold
\* the value under an identifier tag.
C23_TagsAreRoutedByClassification ==
  [][/\ \A t \in DicomIdentifiers' : IsIdentifier(TagOf(t))
     /\ \A t \in MainDicomTags' : ~IsIdentifier(TagOf(t))
     /\ \A id \in InternalIds, tag \in DicomTags, value \in TagValues :
          SetMainDicomTagOp(id, tag, value) =>
            IF IsIdentifier(tag)
              THEN /\ UNCHANGED MainDicomTags
                   /\ lastCall'.error = NoError =>
                        /\ DicomIdentifiers' =
                             DicomIdentifiers \cup {TagRow(id, tag, value)}
                        /\ id \in DOMAIN IdsSelected(
                             SelectByTagAndValue(DicomIdentifiers', tag, value))
                        /\ TagRow(id, tag, value) \notin MainDicomTags'
                   /\ lastCall'.error # NoError => UNCHANGED DicomIdentifiers
              ELSE /\ UNCHANGED DicomIdentifiers
                   /\ lastCall'.error = NoError =>
                        MainDicomTags' = MainDicomTags \cup {TagRow(id, tag, value)}
                   /\ lastCall'.error # NoError => UNCHANGED MainDicomTags
     /\ \A tag \in DicomTags, value \in TagValues :
          LookupIdentifierOp(tag, value) =>
            IF IsIdentifier(tag)
              THEN /\ lastCall'.error = NoError
                   /\ \A id \in InternalIds :
                        id \in DOMAIN answer'.target <=>
                          TagRow(id, tag, value) \in DicomIdentifiers
              ELSE lastCall'.error = ErrorCode_ParameterOutOfRange
     /\ \A value \in TagValues :
          LookupIdentifierByValueOp(value) =>
            \A id \in InternalIds :
              id \in DOMAIN answer'.target <=>
                \E tag \in DicomTags :
                  IsIdentifier(tag) /\ TagRow(id, tag, value) \in DicomIdentifiers]_vars

\* a value was stored under an identifier tag and under another tag, and
\* LookupIdentifier found the resource of the first by its identifier alone
C23_Witness ==
  /\ lastCall.op = "LookupIdentifier"
  /\ lastCall.error = NoError
  /\ answer.op = "LookupIdentifier"
  /\ DOMAIN answer.target = {1}
  /\ TagRow(1, DICOM_TAG_PATIENT_ID, "value-1") \in DicomIdentifiers
  /\ TagRow(2, DICOM_TAG_PATIENT_NAME, "value-1") \in MainDicomTags

\* the n smallest elements of W
FirstOf(W, n) == {x \in W : Cardinality({y \in W : y < x}) < n}

\* the call failed with UnknownResource if a record of the page refers to
\* no stored resource, and otherwise returned records that each have the
\* public id of their resource
ResolvedOrUnknown(page, call, a) ==
  IF \E r \in page : ~KnownResource(Resources, r.internalId)
    THEN call.error = ErrorCode_UnknownResource
    ELSE /\ call.error = NoError
         /\ \A i \in 1..Len(a.target) :
              \E r \in Changes : \E s \in Resources :
                /\ r.seq = a.target[i].seq
                /\ s.internalId = r.internalId
                /\ s.publicId = a.target[i].publicId

\* C24: change records are resolved to public ids when they are read: if a
\* record among those GetChanges (or GetLastChange) is asked for refers to a
\* resource that is no longer stored, the call fails with UnknownResource;
\* otherwise every returned record carries the public id of its resource.
C24_ChangesAreResolvedAtReadTime ==
  [][/\ lastCall'.op = "GetChanges" =>
          LET W == Window("Changes", answer'.since)
              n == MinOf(answer'.maxResults, Cardinality(W))
          IN  ResolvedOrUnknown({r \in Changes : r.seq \in FirstOf(W, n)},
                                lastCall', answer')
     /\ lastCall'.op = "GetLastChange" =>
          ResolvedOrUnknown({r \in Changes : \A q \in Changes : q.seq <= r.seq},
                            lastCall', answer')]_vars

ParentsExist(rows) ==
  \A r \in rows : r.parentId = NoParent \/ r.parentId \in ExistingIds(rows)

\* C25: every stored resource's parent reference is null or the internal id
\* of a stored resource.  AttachChild makes any stored resource the parent of
\* any stored resource, whatever their kinds and even in a cycle, and it is
\* refused, changing nothing, when the parent id names no stored resource.
C25_ParentIsNullOrExists ==
  [][/\ ParentsExist(Resources')
     /\ \A parent \in InternalIds, child \in ExistingIds(Resources) :
          (lastCall'.op = "AttachChild" /\ AttachChildOp(parent, child)) =>
            IF parent \in ExistingIds(Resources)
              THEN /\ lastCall'.error = NoError
                   /\ ParentOf(Resources', child) = parent
                   /\ \A r \in Resources : r.internalId # child => r \in Resources'
              ELSE /\ lastCall'.error # NoError
                   /\ UNCHANGED Resources]_vars

\* a Patient was attached below another kind, and a resource to itself
C25_Witness ==
  /\ lastCall.op = "AttachChild"
  /\ lastCall.error = NoError
  /\ \E r \in Resources : r.parentId = r.internalId
  /\ \E r \in Resources : \E p \in Resources :
       /\ r.parentId = p.internalId
       /\ r.resourceType = ResourceType_Patient
       /\ p.resourceType > ResourceType_Patient

(***************************************************************************)
(* Upgrade scripts that do not do what their name says                     *)
(***************************************************************************)
\* The scripts are text resources built into the program.  Here each upgrade
\* script may leave any of the versions 3, 4, 5 in DatabaseSchemaVersion.
AnyScripts ==
  [{UPGRADE_DATABASE_3_TO_4, UPGRADE_DATABASE_4_TO_5} -> {3, 4, ORTHANC_DATABASE_VERSION}]

InitScripts == StoreOnDisk /\ EmbeddedResources \in AnyScripts

NextScripts ==
  \/ Open
  \/ SetListener
  \/ CreateResourceToAttach

SpecScripts == InitScripts /\ [][NextScripts]_vars

(***************************************************************************)
(* One store opened again and again                                        *)
(***************************************************************************)
NextReopen ==
  \/ Open
  \/ SetListener
  \/ CreateResourceToAttach
  \/ CloseStore

SpecReopen == Init /\ [][NextReopen]_vars

(***************************************************************************)
(* C26..C28: the accumulator and the order of the signals                  *)
(***************************************************************************)
\* the accumulators and reports the replacement rule is checked on
AccumulatorValues ==
  [hasRemainingAncestor_ : BOOLEAN, remainingPublicId_ : {"pub-a", "pub-b"},
   remainingType_ : ResourceTypes]
ReportValues == {"pub-a", "pub-c"} \X ResourceTypes

Recorded(context) ==
  [hasRemainingAncestor_ |-> TRUE, remainingPublicId_ |-> context[1],
   remainingType_ |-> context[2]]

\* the last of the reports that have the smallest kind of all
LastOfSmallestKind(history) ==
  LET smallest == CHOOSE k \in {history[i][2] : i \in 1..Len(history)} :
                    \A i \in 1..Len(history) : k <= history[i][2]
      last == CHOOSE i \in 1..Len(history) :
                /\ history[i][2] = smallest
                /\ \A j \in 1..Len(history) : history[j][2] = smallest => j <= i
  IN  history[last]

\* C26: a report replaces the accumulator exactly when nothing is recorded
\* or the recorded kind is greater than or equal to the kind reported; so,
\* in whatever order the reports of one DeleteResource arrive, the
\* accumulator ends with the last reported of the ancestors of smallest kind.
C26_AccumulatorKeepsLastOfSmallestKind ==
  /\ \A acc \in AccumulatorValues, context \in ReportValues :
       Compute(acc, context) =
         IF ~acc.hasRemainingAncestor_ \/ acc.remainingType_ >= context[2]
           THEN Recorded(context) ELSE acc
  /\ reported = <<>> => ~signalRemainingAncestor_.hasRemainingAncestor_
  /\ reported # <<>> =>
       signalRemainingAncestor_ = Recorded(LastOfSmallestKind(reported))

\* two ancestors of one kind were reported, and the second is recorded
C26_Witness ==
  /\ Len(reported) = 2
  /\ reported[1][2] = reported[2][2]
  /\ reported[1][1] # reported[2][1]
  /\ signalRemainingAncestor_.remainingPublicId_ = reported[2][1]

\* C27: DeleteResource resets the accumulator before anything else: what is
\* recorded and signalled at the end of a call comes from the reports of that
\* call alone, and a call that removes nothing or fails records and signals
\* no ancestor, whatever an earlier call recorded.
C27_AccumulatorIsResetByEveryCall ==
  [][lastCall'.op = "DeleteResource" =>
       LET own == ComputeAll(EmptyAccumulator, reported')
       IN  /\ signalRemainingAncestor_'.hasRemainingAncestor_ = (reported' # <<>>)
           /\ reported' # <<>> => signalRemainingAncestor_' = own
           /\ afterSignals' = RemainingAncestorCall(own, listener_')
           /\ (lastCall'.error # NoError \/ Resources' = Resources) =>
                 /\ ~signalRemainingAncestor_'.hasRemainingAncestor_
                 /\ afterSignals' = <<>>]_vars

\* a call that removed nothing, after a call that recorded an ancestor which
\* is still stored: nothing is recorded or signalled
C27_Witness ==
  /\ lastCall.op = "DeleteResource"
  /\ lastCall.error = NoError
  /\ cascadeSignals = EmptyBag
  /\ afterSignals = <<>>
  /\ ~signalRemainingAncestor_.hasRemainingAncestor_
  /\ \E r \in Resources : r.publicId = signalRemainingAncestor_.remainingPublicId_

\* the signals that the removal of these rows causes while the statement runs
SignalsCausedBy(removedRows, removedFiles) ==
  [e \in {DeletedSignal(r) : r \in removedRows}
          \cup {Signal("SignalFileDeleted", <<AttachmentRecord(a)>>) : a \in removedFiles} |->
     Cardinality({r \in removedRows : DeletedSignal(r) = e})
       + Cardinality({a \in removedFiles :
                        Signal("SignalFileDeleted", <<AttachmentRecord(a)>>) = e})]

\* C28: the signals of a DeleteResource call are delivered within the call:
\* one SignalChange(Deleted) for each row and one SignalFileDeleted for each
\* attachment that this call removed, while the statement runs, and after
\* them at most one SignalRemainingAncestor, for an ancestor reported in this
\* call.  No other call delivers a signal: nothing is left for later.
C28_SignalsAreDeliveredWithinTheCall ==
  [][IF lastCall'.op = "DeleteResource" /\ lastCall'.error = NoError
       THEN /\ cascadeSignals' =
                 SignalsCausedBy(Resources \ Resources', AttachedFiles \ AttachedFiles')
            /\ \A e \in BagToSet(cascadeSignals') :
                 e.signal \in {"SignalChange", "SignalFileDeleted"}
            /\ Len(afterSignals') <= 1
            /\ \A i \in 1..Len(afterSignals') :
                 /\ afterSignals'[i].signal = "SignalRemainingAncestor"
                 /\ \E k \in 1..Len(reported') :
                      afterSignals'[i].args = <<reported'[k][2], reported'[k][1]>>
       ELSE /\ cascadeSignals' = EmptyBag
            /\ afterSignals' = <<>>]_vars

\* a call removed two rows and an attachment and left an ancestor: three
\* signals while the statement ran and one after it
C28_Witness ==
  /\ lastCall.op = "DeleteResource"
  /\ CountSignals(cascadeSignals, "SignalChange") = 2
  /\ CountSignals(cascadeSignals, "SignalFileDeleted") = 1
  /\ Len(afterSignals) = 1

(***************************************************************************)
(* C29, C30: the scripts                                                   *)
(***************************************************************************)
\* DatabaseSchemaVersion holds the current version
StoredVersionIsCurrent(props) ==
  LookupGlobalProperty(props, GlobalProperty_DatabaseSchemaVersion)
    = [found |-> TRUE, target |-> VersionString(ORTHANC_DATABASE_VERSION)]

\* C29: an Open whose upgrade scripts all ran succeeds only if they brought
\* the store to the current version, and fails with InternalError otherwise.
C29_MigrationResultIsChecked ==
  [][(lastCall'.op = "Open" /\ applied' # <<>> /\ lastCall'.error # SQLiteError) =>
       IF StoredVersionIsCurrent(GlobalProperties')
         THEN lastCall'.error = NoError
         ELSE lastCall'.error = ErrorCode_InternalError]_vars

\* C30: a script that fails leaves the store as it was when that script
\* started: a failing schema-creation script leaves no schema, a failing
\* upgrade script leaves the version that the scripts before it committed
\* (4 when the second of two fails, otherwise the version found).
C30_ScriptsAreAllOrNothing ==
  [][(lastCall'.op = "Open" /\ lastCall'.error = SQLiteError) =>
       /\ schemaExists' = schemaExists
       /\ GlobalProperties' =
            IF applied' = <<>> THEN GlobalProperties
            ELSE SetGlobalProperty(GlobalProperties, GlobalProperty_DatabaseSchemaVersion,
                                   VersionString(4))]_vars

(***************************************************************************)
(* C31..C37                                                                *)
(***************************************************************************)
\* log grew by exactly one record, numbered above every number issued so far
\* (issued is the counter of the log: the largest number it ever held)
GrewByOne(log, grown, issued) ==
  \E r \in grown \ log :
    /\ grown = log \cup {r}
    /\ r.seq > issued
    /\ \A q \in log : r.seq > q.seq

EachLogCallAddsOne ==
  /\ \A r \in Changes : r.seq <= changesSeq
  /\ \A r \in ExportedResources : r.seq <= exportedSeq
  /\ lastCall'.op = "LogChange" =>
       /\ GrewByOne(Changes, Changes', changesSeq)
       /\ UNCHANGED ExportedResources
  /\ lastCall'.op = "LogExportedResource" =>
       /\ GrewByOne(ExportedResources, ExportedResources', exportedSeq)
       /\ UNCHANGED Changes

C32_PaginationMakesProgress ==
  [][(/\ lastCall'.op \in {"GetChanges", "GetExportedResources"}
      /\ lastCall'.error = NoError
      /\ ~answer'.done) =>
       /\ answer'.target # <<>>
       /\ answer'.target[Len(answer'.target)].seq > answer'.since]_vars

C34_ReadmittedPatientComesLast ==
  [][lastCall'.op = "SetProtectedPatient" =>
       IF answer'.isProtected
         THEN PatientRecyclingOrder' =
                {e \in PatientRecyclingOrder : e.patientId # lastCall'.id}
         ELSE (HasNoEntry(PatientRecyclingOrder, lastCall'.id)
                 /\ lastCall'.error = NoError) =>
                \E n \in PatientRecyclingOrder' \ PatientRecyclingOrder :
                  /\ PatientRecyclingOrder' = PatientRecyclingOrder \cup {n}
                  /\ n.patientId = lastCall'.id
                  /\ n.seq > recyclingSeq
                  /\ \A e \in PatientRecyclingOrder : n.seq > e.seq
                  /\ PatientRecyclingOrder # {} =>
                       OldestEntry(PatientRecyclingOrder')
                         = OldestEntry(PatientRecyclingOrder)]_vars

\* of two patients the one unprotected second, number 2, was protected and
\* unprotected again: it now has number 3, behind the other's number 1
C34_Witness ==
  /\ lastCall.op = "SetProtectedPatient"
  /\ lastCall.error = NoError
  /\ Cardinality(Resources) = 2
  /\ recyclingSeq = 3
  /\ {e.seq : e \in PatientRecyclingOrder} = {1, 3}
  /\ \E e \in PatientRecyclingOrder : e.seq = 3 /\ e.patientId = lastCall.id

\* the number that Open reads from DatabaseSchemaVersion
VersionOf(props) ==
  LET found == LookupGlobalProperty(props, GlobalProperty_DatabaseSchemaVersion)
  IN  lexical_cast(IF found.found THEN found.target ELSE Unknown)

\* props holds a version from least up to the current one
VersionAtLeast(props, least) ==
  \E n \in least .. ORTHANC_DATABASE_VERSION : IsVersion(VersionOf(props), n)

\* C35: an Open that succeeds leaves the current version stored; an Open of
\* a store at the current version applies no script; a stored version 4 or 5
\* never goes back; and the 3-to-4 script is applied only to a store at 3,
\* the 4-to-5 script only to a store at 3 or 4, each leaving the store above
\* the version it applies to.  So no script is applied to one store twice.
C35_OpenedStoreIsCurrent ==
  [][/\ (lastCall'.op = "Open" /\ lastCall'.error = NoError) =>
          IsVersion(VersionOf(GlobalProperties'), ORTHANC_DATABASE_VERSION)
     /\ (lastCall'.op = "Open" /\ schemaExists
           /\ IsVersion(VersionOf(GlobalProperties), ORTHANC_DATABASE_VERSION)) =>
          applied' = <<>> /\ GlobalProperties' = GlobalProperties
     /\ \A n \in {4, ORTHANC_DATABASE_VERSION} :
          (schemaExists /\ IsVersion(VersionOf(GlobalProperties), n)) =>
            VersionAtLeast(GlobalProperties', n)
     /\ lastCall'.op = "Open" =>
          \A i \in DOMAIN applied' :
            IF applied'[i] = UPGRADE_DATABASE_3_TO_4
              THEN /\ IsVersion(VersionOf(GlobalProperties), 3)
                   /\ VersionAtLeast(GlobalProperties', 4)
              ELSE /\ IsVersion(VersionOf(GlobalProperties), 3)
                        \/ IsVersion(VersionOf(GlobalProperties), 4)
                   /\ VersionAtLeast(GlobalProperties', ORTHANC_DATABASE_VERSION)]_vars

\* a store that holds a resource, so was opened before, and is now at the
\* current version is opened again: Open succeeds and applies no script
C35_Witness ==
  /\ lastCall.op = "Open"
  /\ lastCall.error = NoError
  /\ Resources # {}
  /\ applied = <<>>
  /\ IsVersion(VersionOf(GlobalProperties), ORTHANC_DATABASE_VERSION)

\* C36: when a DeleteResource call ends, with or without an error, every
\* SignalChange(Deleted) and every SignalFileDeleted delivered during the
\* call is the signal of a row that the call removed: the signals delivered
\* are among those of the resources and attachments now absent, one for one.
C36_NoSignalForSurvivingRows ==
  [][lastCall'.op = "DeleteResource" =>
       cascadeSignals' \sqsubseteq
         SignalsCausedBy(Resources \ Resources', AttachedFiles \ AttachedFiles')]_vars

\* the result of a range query were the statement to yield every record above
\* since, without a row limit
UnlimitedRange(log, since, maxResults) ==
  IF log = "Changes"
    THEN GetChangesInternal(SelectRange(Changes, since, -1), maxResults)
    ELSE GetExportedResourcesInternal(SelectRange(ExportedResources, since, -1),
                                      maxResults)

\* C37: for every 32-bit maxResults the row limit maxResults + 1 changes
\* nothing: the records returned, done and the error are those that the same
\* call gives on a statement without row limit, that is min(maxResults, k)
\* of the k records above since, and done as for small values.
C37_ExtraRowNeverChangesTheResult ==
  [][IsRangeQuery(lastCall') =>
       LET exact == UnlimitedRange(answer'.log, answer'.since, answer'.maxResults)
       IN  /\ answer'.target = exact.target
           /\ answer'.done = exact.done
           /\ lastCall'.error = exact.error]_vars

====
